---------------------------- MODULE Spec2Model ----------------------------
(***************************************************************************)
(* Passenger-presence estimator of the campaigns view                      *)
(* (src/unnamed/part_007): the log-normal curve helpers, the per-flight    *)
(* series generator, the multi-flight grid aggregator and the selection    *)
(* handlers that recompute the grid; the view's fetches of campaigns and   *)
(* of a campaign's flights, its cell edits and their save; and the caches  *)
(* of src/src/services/funnelService.ts.                                   *)
(*                                                                         *)
(* Specifications.  Spec: the flight selection and the grid, from the      *)
(* state in which a campaign's flights are shown.  SpecFn: calls of the    *)
(* pure helpers.  SpecList: fetchCampaigns and the requests it has in      *)
(* flight.  SpecFlights: row clicks and fetchCampaignFlights.  SpecEdits:  *)
(* cell edits, handleSaveChanges and handleDiscardChanges.  SpecFunnel     *)
(* and SpecCauseCode: getFunnelSummary and getCauseCodeData with their     *)
(* caches and a clock.  An awaited call is an entry of a sequence of       *)
(* requests in flight, answered by a later action in any order.            *)
(*                                                                         *)
(* Numbers.  The source computes in IEEE doubles.  Here a real is a        *)
(* fixed-point integer with ONE = 1.0 (four decimal digits); every         *)
(* product is followed by a division by ONE rounded to nearest.  Times     *)
(* are integer epoch seconds; a passenger estimate N is a real, the        *)
(* rounded counts are integers.  The rounded counts                        *)
(* therefore agree with the source up to the fixed-point                   *)
(* resolution (about 4e-4 of N).  All intermediate values stay below 2^31. *)
(***************************************************************************)
EXTENDS Integers, Sequences, FiniteSets

(***************************************************************************)
(* Fixed-point arithmetic standing for the double arithmetic of the source *)
(***************************************************************************)

\* 1.0
ONE == 10000

\* x / y on reals scaled by ONE is RDiv(x * ONE, y); rounds to nearest.
RDiv(a, b) == (a + (b \div 2)) \div b

\* x * y on reals scaled by ONE
Mul(x, y) == RDiv(x * y, ONE)

\* N * r for a passenger estimate N and a ratio r, both scaled by ONE: the
\* whole part and the fraction of N are multiplied separately, which keeps
\* the products in range and is exact for a whole N
MulPax(N, r) == (N \div ONE) * r + RDiv((N % ONE) * r, ONE)

Abs(x) == IF x < 0 THEN -x ELSE x

\* mutation of MathRound: Math.ceil
MathRoundAsCeil(x) == (x + ONE - 1) \div ONE

\* Math.round: the nearest integer, ties towards +infinity
MathRound(x) == (x + (ONE \div 2)) \div ONE

\* JavaScript's % : the remainder has the sign of the dividend
JsRem(a, b) == IF a >= 0 THEN a % b ELSE -((-a) % b)

\* mutation of CeilTo: Math.floor in place of Math.ceil
CeilToAsFloor(a, b) == (a \div b) * b

\* Math.floor(a / b) * b and Math.ceil(a / b) * b for an integer a and b > 0
FloorTo(a, b) == (a \div b) * b
CeilTo(a, b) == -((-a) \div b) * b

\* Math.sqrt(2)
SQRT2 == 14142

\* ln 2, used by Math.log and Math.exp below
LN2 == 6931

\* Math.log(p / q) for integers p > 0, q > 0: p / q is brought into [1, 2) by
\* doublings, then ln m = 2 atanh((m - 1) / (m + 1)) by its series.
RECURSIVE LogRatio(_, _, _)
LogRatio(p, q, k) ==
    IF p < q THEN LogRatio(2 * p, q, k - 1)
    ELSE IF p >= 2 * q THEN LogRatio(p, 2 * q, k + 1)
    ELSE LET u  == RDiv(ONE * (p - q), p + q)
             u2 == Mul(u, u)
             u3 == Mul(u2, u)
             u5 == Mul(u3, u2)
             u7 == Mul(u5, u2)
             u9 == Mul(u7, u2)
         IN  2 * u + RDiv(2 * u3, 3) + RDiv(2 * u5, 5) + RDiv(2 * u7, 7)
               + RDiv(2 * u9, 9) + k * LN2

MathLog(p, q) == LogRatio(p, q, 0)

RECURSIVE Pow2(_)
Pow2(n) == IF n = 0 THEN 1 ELSE 2 * Pow2(n - 1)

\* The alternating Taylor series of exp(-r), 0 <= r < ln 2, from term i on
RECURSIVE ExpSeries(_, _, _)
ExpSeries(r, term, i) ==
    IF i > 9 THEN 0
    ELSE LET next == RDiv(term * r, ONE * i)
         IN  (IF i % 2 = 0 THEN next ELSE -next) + ExpSeries(r, next, i + 1)

\* Math.exp(-s) for s >= 0: exp(-s) = 2^-n * exp(-r) with s = n ln 2 + r
MathExpNeg(s) ==
    LET n == s \div LN2
        r == s - n * LN2
    IN  IF n > 20 THEN 0 ELSE RDiv(ONE + ExpSeries(r, ONE, 1), Pow2(n))

(***************************************************************************)
(* normalCDF, lognormCDF                                                   *)
(***************************************************************************)

A1 == 2548
A2 == -2845
A3 == 14214
A4 == -14532
A5 == 10614
P == 3276

\* |x| from which exp(-x*x/2) is below the resolution (and absX * absX
\* would leave the integer range)
XCUT == 65000

\* mutation of normalCDF: the sign of x is dropped
normalCDFUnsigned(x) ==
    LET absX == RDiv(Abs(x) * ONE, SQRT2)
        t    == RDiv(ONE * ONE, ONE + Mul(P, absX))
        poly == Mul(Mul(Mul(Mul(Mul(A5, t) + A4, t) + A3, t) + A2, t) + A1, t)
        y    == IF Abs(x) >= XCUT THEN ONE
                ELSE ONE - Mul(poly, MathExpNeg(Mul(absX, absX)))
    IN  (ONE + y) \div 2

normalCDF(x) ==
    LET sign == IF x < 0 THEN -1 ELSE 1
        absX == RDiv(Abs(x) * ONE, SQRT2)
        t    == RDiv(ONE * ONE, ONE + Mul(P, absX))
        poly == Mul(Mul(Mul(Mul(Mul(A5, t) + A4, t) + A3, t) + A2, t) + A1, t)
        y    == IF Abs(x) >= XCUT THEN ONE
                ELSE ONE - Mul(poly, MathExpNeg(Mul(absX, absX)))
    IN  (ONE + sign * y) \div 2

\* mutation of lognormCDF: x <= 0 is answered with the value at the median
lognormCDFHalfBelow(xn, xd, sigma10, scale10) ==
    IF xn <= 0 THEN normalCDF(0)
    ELSE normalCDF(RDiv((MathLog(xn, xd) - MathLog(scale10, 10)) * 10, sigma10))

\* lognormCDF(xn / xd, sigma, scale), sigma and scale in tenths
lognormCDF(xn, xd, sigma10, scale10) ==
    IF xn <= 0 THEN 0
    ELSE normalCDF(RDiv((MathLog(xn, xd) - MathLog(scale10, 10)) * 10, sigma10))


(***************************************************************************)
(* Values of the flight records                                            *)
(***************************************************************************)

\* null / undefined; a present value v is <<v>>
NULL == <<>>
Some(v) == <<v>>

\* dayjs(timeStr).unix(): a timestamp string names a UTC day (counted from
\* the epoch), hour, minute and second; its instant in epoch seconds
Unix(ts) == ts.day * 86400 + ts.hour * 3600 + ts.minute * 60 + ts.second

\* dayjs.unix(t).utc().format('HH:mm'): hour and minute of the UTC day
FormatHHmm(t) == <<(t % 86400) \div 3600, (t % 3600) \div 60>>

\* mutation of ToLowerCase: the type is compared as written
ToLowerCaseIdentity(s) == s

\* String.prototype.toLowerCase on the flight types that occur
ToLowerCase(s) ==
    CASE s = "Arrival" -> "arrival"
      [] s = "ARR" -> "arr"
      [] s = "Departure" -> "departure"
      [] s = "DEP" -> "dep"
      [] OTHER -> s

\* a || b on optional timestamp strings
OrElse(a, b) == IF a # NULL THEN a ELSE b

\* flight.avg_pax_est || 100: null and 0 are both falsy; the estimate is a
\* real scaled by ONE
DEFAULT_PAX == 100
PaxOrDefault(avg_pax_est) ==
    IF avg_pax_est # NULL /\ avg_pax_est[1] # 0 THEN avg_pax_est[1]
    ELSE DEFAULT_PAX * ONE

(***************************************************************************)
(* arrivalsExitLogNormal, passengersLogNormal                              *)
(* t, tLand, tEnd, tOpen, tDep are epoch seconds; N and the result are     *)
(* reals scaled by ONE.                                                    *)
(***************************************************************************)

\* default parameters, in tenths
ARR_SIGMA == 3
ARR_MEDIAN == 3
DEP_SIGMA == 5
DEP_MEDIAN == 7

\* lognormCDF(1.0, sigma, scale) with the default parameters
ArrMaxProb == lognormCDF(1, 1, ARR_SIGMA, ARR_MEDIAN)
DepMaxProb == lognormCDF(1, 1, DEP_SIGMA, DEP_MEDIAN)

\* mutation of arrivalsExitLogNormal: the early returns of the departure
\* function (0 before the window, N after it)
arrivalsExitSwappedReturns(t, N, tLand, tEnd) ==
    IF t <= tLand THEN 0
    ELSE IF t >= tEnd THEN N
    ELSE LET cumProb == lognormCDF(t - tLand, tEnd - tLand, ARR_SIGMA, ARR_MEDIAN)
         IN  N - MulPax(N, RDiv(cumProb * ONE, ArrMaxProb))

arrivalsExitLogNormal(t, N, tLand, tEnd) ==
    IF t <= tLand THEN N
    ELSE IF t >= tEnd THEN 0
    ELSE LET elapsed == t - tLand
             totalWindow == tEnd - tLand
             cumProb == lognormCDF(elapsed, totalWindow, ARR_SIGMA, ARR_MEDIAN)
             maxProb == ArrMaxProb
             cumulativeExits == MulPax(N, RDiv(cumProb * ONE, maxProb))
         IN  N - cumulativeExits

\* mutation of arrivalsExitTotalWindow: the return at t >= tEnd is missing
arrivalsExitNoEndReturn(t, N, tLand, tEnd) ==
    IF t <= tLand THEN NULL ELSE Some(tEnd - tLand)

\* the totalWindow by which a call of arrivalsExitLogNormal divides, NULL
\* when the call returns before the division
arrivalsExitTotalWindow(t, N, tLand, tEnd) ==
    IF t <= tLand THEN NULL
    ELSE IF t >= tEnd THEN NULL
    ELSE Some(tEnd - tLand)

\* likewise for passengersLogNormal
passengersTotalWindow(t, N, tOpen, tDep) ==
    IF t <= tOpen THEN NULL
    ELSE IF t >= tDep THEN NULL
    ELSE Some(tDep - tOpen)

\* mutation of passengersLogNormal: no saturation at t >= tDep (in a window
\* of positive length)
passengersUnsaturated(t, N, tOpen, tDep) ==
    IF t <= tOpen THEN 0
    ELSE IF tDep <= tOpen THEN N
    ELSE LET cumProb == lognormCDF(t - tOpen, tDep - tOpen, DEP_SIGMA, DEP_MEDIAN)
         IN  MulPax(N, RDiv(cumProb * ONE, DepMaxProb))

passengersLogNormal(t, N, tOpen, tDep) ==
    IF t <= tOpen THEN 0
    ELSE IF t >= tDep THEN N
    ELSE LET elapsed == t - tOpen
             totalWindow == tDep - tOpen
             cumProb == lognormCDF(elapsed, totalWindow, DEP_SIGMA, DEP_MEDIAN)
             maxProb == DepMaxProb
         IN  MulPax(N, RDiv(cumProb * ONE, maxProb))

(***************************************************************************)
(* calculatePassengerDistribution                                          *)
(***************************************************************************)

SECONDS_IN_HOUR == 3600
THREE_HOURS_IN_SECONDS == 3 * SECONDS_IN_HOUR
NINETY_MINS_IN_SECONDS == 90 * 60
FIVE_MINUTES_IN_SECONDS == 300

PassengerTimePoint(flight, t, count) ==
    [ flight_id |-> flight.flight_number,
      flight_type |-> flight.flight_type,
      time |-> t,
      time_formatted |-> FormatHHmm(t),
      passenger_count |-> count ]

\* mutation of ArrivalLoop: t < tEnd as the loop condition
RECURSIVE ArrivalLoopExclusive(_, _, _, _, _)
ArrivalLoopExclusive(flight, t, N, tLand, tEnd) ==
    IF t < tEnd
    THEN <<PassengerTimePoint(flight, t,
               MathRound(arrivalsExitLogNormal(t, N, tLand, tEnd)))>>
         \o ArrivalLoopExclusive(flight, t + FIVE_MINUTES_IN_SECONDS, N, tLand, tEnd)
    ELSE <<>>

\* for (let t = tStartSnapped; t <= tEnd; t += FIVE_MINUTES_IN_SECONDS)
RECURSIVE ArrivalLoop(_, _, _, _, _)
ArrivalLoop(flight, t, N, tLand, tEnd) ==
    IF t <= tEnd
    THEN <<PassengerTimePoint(flight, t,
               MathRound(arrivalsExitLogNormal(t, N, tLand, tEnd)))>>
         \o ArrivalLoop(flight, t + FIVE_MINUTES_IN_SECONDS, N, tLand, tEnd)
    ELSE <<>>

\* for (let t = tOpenSnapped; t <= tDep; t += FIVE_MINUTES_IN_SECONDS)
RECURSIVE DepartureLoop(_, _, _, _, _)
DepartureLoop(flight, t, N, tOpenSnapped, tDep) ==
    IF t <= tDep
    THEN <<PassengerTimePoint(flight, t,
               MathRound(passengersLogNormal(t, N, tOpenSnapped, tDep)))>>
         \o DepartureLoop(flight, t + FIVE_MINUTES_IN_SECONDS, N, tOpenSnapped, tDep)
    ELSE <<>>

\* mutation of FinalDeparturePoint: the final point is never added
NoFinalDeparturePoint(flight, results, N, tDep) == results

\* mutation of FinalDeparturePoint: the final point is added in any case
AlwaysFinalDeparturePoint(flight, results, N, tDep) ==
    Append(results, PassengerTimePoint(flight, tDep, MathRound(N)))

\* the final departure point, added when the stepping did not reach tDep
FinalDeparturePoint(flight, results, N, tDep) ==
    LET lastTime == IF Len(results) > 0 THEN results[Len(results)].time ELSE 0
    IN  IF lastTime < tDep
        THEN Append(results, PassengerTimePoint(flight, tDep, MathRound(N)))
        ELSE results

calculatePassengerDistribution(flight) ==
    LET timeStr == OrElse(flight.actual_time_utc, flight.scheduled_time_utc)
    IN  IF timeStr = NULL THEN <<>>
        ELSE
        LET tActual == Unix(timeStr[1])
            N == PaxOrDefault(flight.avg_pax_est)
            fType == IF flight.flight_type = NULL THEN NULL
                     ELSE Some(ToLowerCase(flight.flight_type[1]))
        IN  IF fType = Some("arrival") \/ fType = Some("arr")
            THEN LET tLand == tActual
                     tStartSnapped == CeilTo(tLand, FIVE_MINUTES_IN_SECONDS)
                     tEnd == tLand + NINETY_MINS_IN_SECONDS
                 IN  ArrivalLoop(flight, tStartSnapped, N, tLand, tEnd)
            ELSE IF fType = Some("departure") \/ fType = Some("dep")
            THEN LET tDep == tActual
                     rawStart == tDep - THREE_HOURS_IN_SECONDS
                     tOpenSnapped == rawStart - JsRem(rawStart, SECONDS_IN_HOUR)
                 IN  FinalDeparturePoint(flight,
                         DepartureLoop(flight, tOpenSnapped, N, tOpenSnapped, tDep),
                         N, tDep)
            ELSE <<>>

(***************************************************************************)
(* calculatePassengerGridData                                              *)
(***************************************************************************)

FIVE_MINUTES == 300
TWO_HOURS == 2 * 3600
THREE_HOURS == 3 * 3600
NINETY_MINS == 90 * 60

\* flights.map((f, index) => ...): the per-flight data of flight number
\* index (0-based; flights is a 1-based sequence)
FlightData(flights, index) ==
    LET f == flights[index + 1]
        timeStr == OrElse(f.actual_time_utc, f.scheduled_time_utc)
        tActual == IF timeStr # NULL THEN Unix(timeStr[1]) ELSE 0
        fType == IF f.flight_type = NULL THEN NULL
                 ELSE Some(ToLowerCase(f.flight_type[1]))
        isArrival == fType = Some("arrival") \/ fType = Some("arr")
        rawStart == tActual - THREE_HOURS
    IN  [ index |-> index,
          tActual |-> tActual,
          isArrival |-> isArrival,
          N |-> PaxOrDefault(f.avg_pax_est),
          windowStart |-> IF isArrival THEN tActual
                          ELSE rawStart - JsRem(rawStart, 3600),
          windowEnd |-> IF isArrival THEN tActual + NINETY_MINS ELSE tActual ]

\* mutation of MathMin: the first flight's window start
MathMinFirst(xs) == xs[1]

\* Math.min(...xs), Math.max(...xs) of a non-empty sequence
RECURSIVE MathMin(_)
MathMin(xs) ==
    IF Len(xs) = 1 THEN xs[1]
    ELSE LET m == MathMin(Tail(xs)) IN IF xs[1] < m THEN xs[1] ELSE m

RECURSIVE MathMax(_)
MathMax(xs) ==
    IF Len(xs) = 1 THEN xs[1]
    ELSE LET m == MathMax(Tail(xs)) IN IF xs[1] > m THEN xs[1] ELSE m

\* mutation of GridPassengers: a departure is not cleared after tDep
GridPassengersKeepDeparted(fd, t) ==
    IF fd.isArrival
    THEN IF t < fd.tActual THEN 0
         ELSE arrivalsExitLogNormal(t, fd.N, fd.tActual, fd.tActual + NINETY_MINS)
    ELSE LET rawStart == fd.tActual - THREE_HOURS
         IN  passengersLogNormal(t, fd.N, rawStart - JsRem(rawStart, 3600),
                                 fd.tActual)

\* mutation of GridPassengers: an arrival is still 0 at its landing instant
GridPassengersLandingExcluded(fd, t) ==
    IF fd.isArrival
    THEN IF t <= fd.tActual THEN 0
         ELSE arrivalsExitLogNormal(t, fd.N, fd.tActual, fd.tActual + NINETY_MINS)
    ELSE LET rawStart == fd.tActual - THREE_HOURS
         IN  IF t > fd.tActual THEN 0
             ELSE passengersLogNormal(t, fd.N, rawStart - JsRem(rawStart, 3600),
                                      fd.tActual)

\* mutation of GridPassengers: a departure is cleared from tDep on
GridPassengersDepartureExcluded(fd, t) ==
    IF fd.isArrival
    THEN IF t < fd.tActual THEN 0
         ELSE arrivalsExitLogNormal(t, fd.N, fd.tActual, fd.tActual + NINETY_MINS)
    ELSE LET rawStart == fd.tActual - THREE_HOURS
         IN  IF t >= fd.tActual THEN 0
             ELSE passengersLogNormal(t, fd.N, rawStart - JsRem(rawStart, 3600),
                                      fd.tActual)

\* mutation of GridPassengers: the departure window opens at t_dep - 3 h,
\* not snapped down to the hour
GridPassengersRawOpen(fd, t) ==
    IF fd.isArrival
    THEN IF t < fd.tActual THEN 0
         ELSE arrivalsExitLogNormal(t, fd.N, fd.tActual, fd.tActual + NINETY_MINS)
    ELSE IF t > fd.tActual THEN 0
         ELSE passengersLogNormal(t, fd.N, fd.tActual - THREE_HOURS, fd.tActual)

\* the passengers of one flight at grid instant t, before rounding
GridPassengers(fd, t) ==
    IF fd.isArrival
    THEN LET tLand == fd.tActual
         IN  IF t < tLand THEN 0
             ELSE arrivalsExitLogNormal(t, fd.N, tLand, tLand + NINETY_MINS)
    ELSE LET tDep == fd.tActual
             rawStart == tDep - THREE_HOURS
             tOpen == rawStart - JsRem(rawStart, 3600)
         IN  IF t > tDep THEN 0
             ELSE passengersLogNormal(t, fd.N, tOpen, tDep)

\* totalPassengers += roundedPassengers, over the columns from i on
RECURSIVE SumColumns(_, _, _)
SumColumns(cols, i, n) ==
    IF i >= n THEN 0 ELSE cols[i] + SumColumns(cols, i + 1, n)

\* mutation of GridRow: the total adds the unrounded values and is rounded
\* once
RECURSIVE SumUnrounded(_, _, _)
SumUnrounded(flightData, i, t) ==
    IF i > Len(flightData) THEN 0
    ELSE GridPassengers(flightData[i], t) + SumUnrounded(flightData, i + 1, t)

GridRowTotalOfUnrounded(flightData, t) ==
    [ time |-> t,
      time_formatted |-> FormatHHmm(t),
      flight |-> [i \in 0 .. Len(flightData) - 1 |->
                     MathRound(GridPassengers(flightData[i + 1], t))],
      total |-> MathRound(SumUnrounded(flightData, 1, t)) ]

\* one row: column i holds row[`flight_${i}`]
GridRow(flightData, t) ==
    LET n == Len(flightData)
        cols == [i \in 0 .. n - 1 |-> MathRound(GridPassengers(flightData[i + 1], t))]
    IN  [ time |-> t,
          time_formatted |-> FormatHHmm(t),
          flight |-> cols,
          total |-> SumColumns(cols, 0, n) ]

\* for (let t = startTime; t <= maxTime; t += FIVE_MINUTES)
GridLoop(flightData, startTime, maxTime) ==
    IF startTime <= maxTime
    THEN [k \in 1 .. ((maxTime - startTime) \div FIVE_MINUTES) + 1 |->
             GridRow(flightData, startTime + (k - 1) * FIVE_MINUTES)]
    ELSE <<>>

calculatePassengerGridData(flights) ==
    IF Len(flights) = 0 THEN <<>>
    ELSE LET flightData == [i \in 1 .. Len(flights) |-> FlightData(flights, i - 1)]
             minTime == MathMin([i \in 1 .. Len(flights) |-> flightData[i].windowStart])
             maxTime == MathMax([i \in 1 .. Len(flights) |-> flightData[i].windowEnd])
                          + TWO_HOURS
             startTime == FloorTo(minTime, FIVE_MINUTES)
         IN  GridLoop(flightData, startTime, maxTime)

\* (row[columnKey] as number) || 0 for the column flight_index of a row
ColumnOrZero(row, index) ==
    IF index \in DOMAIN row.flight THEN row.flight[index] ELSE 0

\* mutation of transformToNivoData: the column of a series is looked up by
\* flight number, the first selected flight with that number giving it
transformToNivoDataByFlightNumber(gridData, flights) ==
    IF Len(gridData) = 0 \/ Len(flights) = 0 THEN <<>>
    ELSE [i \in 1 .. Len(flights) |->
            LET first == CHOOSE j \in 1 .. Len(flights) :
                            /\ flights[j].flight_number = flights[i].flight_number
                            /\ \A k \in 1 .. j - 1 :
                                  flights[k].flight_number # flights[i].flight_number
            IN  [ id |-> flights[i].flight_number,
                  data |-> [r \in 1 .. Len(gridData) |->
                               [ x |-> gridData[r].time_formatted,
                                 y |-> ColumnOrZero(gridData[r], first - 1) ]] ]]

\* one series per flight, in the order of the flights; one point per row
transformToNivoData(gridData, flights) ==
    IF Len(gridData) = 0 \/ Len(flights) = 0 THEN <<>>
    ELSE [i \in 1 .. Len(flights) |->
            [ id |-> flights[i].flight_number,
              data |-> [r \in 1 .. Len(gridData) |->
                           [ x |-> gridData[r].time_formatted,
                             y |-> ColumnOrZero(gridData[r], i - 1) ]] ]]

\* the fields of passengerColumnDefs: the column of flight index is
\* <<"flight", index>>
passengerColumnDefs(flights) ==
    <<"time_formatted">>
    \o [i \in 1 .. Len(flights) |-> <<"flight", i - 1>>]
    \o <<"total">>

(***************************************************************************)
(* State                                                                   *)
(***************************************************************************)

VARIABLES
    curveIn,            \* arguments of a call of the two curve functions
    curveOut,           \* what the calls returned (NULL: not called yet)
    curvePrev,          \* arguments and results of the call before
    cdfIn,              \* arguments of a call of lognormCDF
    cdfOut,             \* what the call returned (NULL: not called yet)
    cdfPrev,            \* argument x and result of the call before
    flight,             \* argument of calculatePassengerDistribution
    results,            \* what it returned (NULL: not called yet)
    selectedFlights,    \* useState: the selected flight rows
    passengerGridData,  \* useState: the grid derived from them
    selectedDate,       \* useState: the day of the calendar (NULL: none)
    statusFilter,       \* useState: the status filter
    campaigns,          \* useState: the rows of the campaigns table
    loading,            \* useState: the campaigns spinner
    campaignRequests,   \* the calls of fetchCampaigns awaiting their query
    selectedCampaign,   \* useState: the campaign whose flights are shown
    campaignFlights,    \* useState: the rows of the flights table
    loadingFlights,     \* useState: the flights spinner
    flightRequests,     \* the calls of fetchCampaignFlights at an await
    snackbar,           \* useState: the message shown
    pendingChanges,     \* useState: the unsaved cell edits by campaign_id
    savingChanges,      \* useState: the 'Saving...' flag
    saveRun,            \* the call of handleSaveChanges at an await (or NULL)
    campaignsTable,     \* the backend's table 'campaigns'
    now,                \* Date.now(), in ms
    funnelCache,        \* funnelService: the module's funnelCache
    funnelCalls,        \* the calls of getFunnelSummary made so far
    dataCache,          \* cause-code service: the module's dataCache
    causeCalls          \* the calls of getCauseCodeData made so far

curveVars == <<curveIn, curveOut, curvePrev>>
cdfVars == <<cdfIn, cdfOut, cdfPrev>>
seriesVars == <<flight, results>>
gridVars == <<selectedFlights, passengerGridData>>
listVars == <<selectedDate, statusFilter, campaigns, loading, campaignRequests>>
flightsVars == <<selectedCampaign, campaignFlights, loadingFlights, flightRequests>>
editVars == <<pendingChanges, savingChanges, saveRun, campaignsTable>>
\* the state of the campaigns view besides the flight selection
viewVars == <<listVars, flightsVars, snackbar, editVars>>

\* the clock and the caches of the services
serviceVars == <<now, funnelCache, funnelCalls, dataCache, causeCalls>>

vars == <<curveVars, cdfVars, seriesVars, gridVars, viewVars, serviceVars>>

(***************************************************************************)
(* Bounds of the inputs                                                    *)
(***************************************************************************)

\* the largest passenger estimate (the seats of the largest airliners)
MaxPax == 850
\* the curve functions are called at instants tA + i * (tB - tA) / CurveSteps
CurveSteps == 12
\* anchor times lie in the hours FirstHour .. FirstHour + HourSpan of day 0
FirstHour == 4
HourSpan == 1
\* at most this many flight rows are selected
MaxSelected == 2
\* lognormCDF is called at x up to (2^MaxX - 1) / 10
MaxX == 8

\* passenger estimates of the inputs (reals scaled by ONE)
Pax(n) == Some(n * ONE)
PaxCounts == {0, ONE, (MaxPax \div 2) * ONE, MaxPax * ONE}

Timestamp(h, m, s) == [day |-> 0, hour |-> h, minute |-> m, second |-> s]
\* the same time of the next day
NextDay(ts) == [ts EXCEPT !.day = ts.day + 1]

AnchorTimes ==
    { Timestamp(h, m, s) : h \in FirstHour .. FirstHour + HourSpan,
                           m \in {0, 5, 17, 55}, s \in {0, 30} }

Flight(number, type, scheduled, actual, pax) ==
    [ flight_number |-> number,
      flight_type |-> type,
      scheduled_time_utc |-> scheduled,
      actual_time_utc |-> actual,
      avg_pax_est |-> pax ]

(***************************************************************************)
(* The campaigns view: its rows in the backend and its state at            *)
(* construction                                                            *)
(***************************************************************************)

\* at most this many calls of one fetch function await their answer
MaxRequests == 2
\* the calendar offers the days Today .. Today + DaySpan
DaySpan == 1

Today == 0
Dates == { Some(d) : d \in Today .. Today + DaySpan } \cup {NULL}
StatusFilters == {"PENDING_REVIEW", "LIVE", "ALL"}

Campaign(id, target, windowStart, windowEnd, created, status) ==
    [ campaign_id |-> id,
      ad_iata_target |-> target,
      ad_window_start |-> windowStart,
      ad_window_end |-> windowEnd,
      created_at |-> created,
      campaign_status |-> status,
      campaign_status_comments |-> NULL ]

\* created_at: the day and the minute of the day
Created(d, m) == [day |-> d, minute |-> m]

\* the table 'campaigns' of the backend, by campaign_id: the ad window of
\* campaign 1 spans two days, campaign 3 has no ad window, campaign 4 is live, campaign 5 was created on the last day
InitialCampaigns ==
    [ id \in 1 .. 5 |->
        CASE id = 1 -> Campaign(1, "WAW", Some(Timestamp(FirstHour, 5, 0)),
                                Some(NextDay(Timestamp(FirstHour + HourSpan, 15, 0))),
                                Created(Today, 10), "PENDING_REVIEW")
          [] id = 2 -> Campaign(2, "KRK", Some(Timestamp(FirstHour, 0, 0)),
                                Some(Timestamp(FirstHour + HourSpan, 15, 0)),
                                Created(Today, 20), "PENDING_REVIEW")
          [] id = 3 -> Campaign(3, "GDN", NULL, NULL,
                                Created(Today, 30), "PENDING_REVIEW")
          [] id = 4 -> Campaign(4, "WAW", Some(Timestamp(FirstHour, 0, 0)),
                                Some(Timestamp(FirstHour, 30, 0)),
                                Created(Today, 40), "LIVE")
          [] id = 5 -> Campaign(5, "POZ", Some(Timestamp(FirstHour, 0, 0)),
                                Some(Timestamp(FirstHour, 30, 0)),
                                Created(Today + DaySpan, 10), "PENDING_REVIEW") ]

\* useState(...) of the view besides the flight selection, and the backend
\* as it is found
ViewConstructed ==
    /\ selectedDate = Some(Today)
    /\ statusFilter = "PENDING_REVIEW"
    /\ campaigns = <<>>
    /\ loading = FALSE
    /\ campaignRequests = <<>>
    /\ selectedCampaign = NULL
    /\ campaignFlights = <<>>
    /\ loadingFlights = FALSE
    /\ flightRequests = <<>>
    /\ snackbar = [open |-> FALSE, message |-> <<>>, severity |-> "success"]
    /\ pendingChanges = <<>>
    /\ savingChanges = FALSE
    /\ saveRun = NULL
    /\ campaignsTable = InitialCampaigns

\* the services as their modules are loaded, at time 0
ServicesLoaded ==
    /\ now = 0
    /\ funnelCache = NULL
    /\ funnelCalls = <<>>
    /\ dataCache = NULL
    /\ causeCalls = <<>>

(***************************************************************************)
(* SpecFn, part 1: arrivalsExitLogNormal and passengersLogNormal called    *)
(* at increasing instants over one window                                  *)
(***************************************************************************)

\* the last window has length zero
CurveWindows ==
    { <<14400, 19800>>, <<7200, 18030>>, <<100, 100 + 2 * CurveSteps>>,
      <<500, 500>> }

\* the instants of the calls: a step before the window, CurveSteps steps
\* across it, a step after it (steps of 1 s for the window of length zero)
CurveInstant(w, i) ==
    IF w[1] = w[2] THEN w[1] + i
    ELSE w[1] + (i * (w[2] - w[1])) \div CurveSteps

CurveCall(in) ==
    [ arr |-> arrivalsExitLogNormal(in.t, in.N, in.tA, in.tB),
      dep |-> passengersLogNormal(in.t, in.N, in.tA, in.tB),
      arrWindow |-> arrivalsExitTotalWindow(in.t, in.N, in.tA, in.tB),
      depWindow |-> passengersTotalWindow(in.t, in.N, in.tA, in.tB) ]

InitCurve ==
    /\ \E w \in CurveWindows, N \in PaxCounts :
          curveIn = [i |-> -1, t |-> CurveInstant(w, -1), N |-> N,
                     tA |-> w[1], tB |-> w[2]]
    /\ curveOut = NULL
    /\ curvePrev = NULL
    /\ flight = NULL /\ results = NULL
    /\ cdfIn = NULL /\ cdfOut = NULL /\ cdfPrev = NULL
    /\ selectedFlights = <<>> /\ passengerGridData = <<>>
    /\ ViewConstructed
    /\ ServicesLoaded

\* the functions are called with the current arguments
Evaluate ==
    /\ curveIn # NULL
    /\ curveOut = NULL
    /\ curveOut' = Some(CurveCall(curveIn))
    /\ UNCHANGED <<curveIn, curvePrev, cdfVars, seriesVars, gridVars, viewVars, serviceVars>>

\* and then again at a later instant of the same window
EvaluateLater ==
    /\ curveOut # NULL
    /\ \E i \in curveIn.i + 1 .. CurveSteps + 1 :
          LET in == [curveIn EXCEPT !.i = i,
                        !.t = CurveInstant(<<curveIn.tA, curveIn.tB>>, i)]
          IN  /\ curveIn' = in
              /\ curveOut' = Some(CurveCall(in))
              /\ curvePrev' = Some([t |-> curveIn.t, out |-> curveOut[1]])
    /\ UNCHANGED <<cdfVars, seriesVars, gridVars, viewVars, serviceVars>>

(***************************************************************************)
(* SpecFn, part 2: calculatePassengerDistribution applied to one flight    *)
(***************************************************************************)

FlightTypes == {"arrival", "ARR", "departure", "DEP"}

SeriesFlights ==
    { Flight("F1", Some(ty), Some(ts), a, Some(n)) :
        ty \in FlightTypes, ts \in AnchorTimes, a \in {NULL}, n \in PaxCounts }
    \cup
    { Flight("F1", Some(ty), Some(Timestamp(FirstHour, 0, 0)), Some(ts), NULL) :
        ty \in FlightTypes, ts \in AnchorTimes }

\* estimates that are not whole numbers: 0.25, 0.5, MaxPax / 2 + 0.5,
\* MaxPax - 0.25
FractionalPax ==
    { ONE \div 4, ONE \div 2, (MaxPax \div 2) * ONE + ONE \div 2,
      MaxPax * ONE - ONE \div 4 }

\* flights of other and missing types, flights without a time, flights
\* with an estimate that is not a whole number
EdgeFlights ==
    { Flight("F2", ty, Some(Timestamp(FirstHour, m, 0)), NULL, Pax(MaxPax)) :
        ty \in {Some("Arrival"), Some("Departure"), Some("charter"), Some(""), NULL},
        m \in {0, 17} }
    \cup
    { Flight("F3", ty, NULL, NULL, Pax(MaxPax)) :
        ty \in {Some("arrival"), Some("DEP"), Some("charter"), NULL} }
    \cup
    { Flight("F4", Some(ty), Some(ts), NULL, Some(n)) :
        ty \in {"arrival", "departure"}, ts \in AnchorTimes, n \in FractionalPax }

InitSeries ==
    /\ flight \in SeriesFlights \cup EdgeFlights
    /\ results = NULL
    /\ curveIn = NULL /\ curveOut = NULL /\ curvePrev = NULL
    /\ cdfIn = NULL /\ cdfOut = NULL /\ cdfPrev = NULL
    /\ selectedFlights = <<>> /\ passengerGridData = <<>>
    /\ ViewConstructed
    /\ ServicesLoaded

Distribute ==
    /\ flight # NULL
    /\ results = NULL
    /\ results' = Some(calculatePassengerDistribution(flight))
    /\ UNCHANGED <<flight, curveVars, cdfVars, gridVars, viewVars, serviceVars>>

(***************************************************************************)
(* SpecFn, part 3: lognormCDF called at increasing x                       *)
(***************************************************************************)

\* x, in tenths: -1.0, -0.5, 0 and then 2^i - 1 tenths, i = 1 .. MaxX
CdfX(i) == IF i <= 0 THEN 5 * i ELSE Pow2(i) - 1

\* sigma and scale, in tenths
CdfSigmas == {1, 3, 5, 20}
CdfScales == {1, 3, 7, 30}

CdfCall(in) == lognormCDF(in.xn, 10, in.sigma10, in.scale10)

InitCdf ==
    /\ \E i \in -2 .. MaxX, sigma10 \in CdfSigmas, scale10 \in CdfScales :
          cdfIn = [i |-> i, xn |-> CdfX(i), sigma10 |-> sigma10, scale10 |-> scale10]
    /\ cdfOut = NULL
    /\ cdfPrev = NULL
    /\ curveIn = NULL /\ curveOut = NULL /\ curvePrev = NULL
    /\ flight = NULL /\ results = NULL
    /\ selectedFlights = <<>> /\ passengerGridData = <<>>
    /\ ViewConstructed
    /\ ServicesLoaded

\* lognormCDF is called with the current arguments
EvaluateCdf ==
    /\ cdfIn # NULL
    /\ cdfOut = NULL
    /\ cdfOut' = Some(CdfCall(cdfIn))
    /\ UNCHANGED <<cdfIn, cdfPrev, curveVars, seriesVars, gridVars, viewVars, serviceVars>>

\* and then again at a larger x
EvaluateCdfLater ==
    /\ cdfOut # NULL
    /\ \E i \in cdfIn.i + 1 .. MaxX :
          LET in == [cdfIn EXCEPT !.i = i, !.xn = CdfX(i)]
          IN  /\ cdfIn' = in
              /\ cdfOut' = Some(CdfCall(in))
              /\ cdfPrev' = Some([xn |-> cdfIn.xn, out |-> cdfOut[1]])
    /\ UNCHANGED <<curveVars, seriesVars, gridVars, viewVars, serviceVars>>

InitFn == InitCurve \/ InitSeries \/ InitCdf

NextFn == Evaluate \/ EvaluateLater \/ Distribute \/ EvaluateCdf \/ EvaluateCdfLater

SpecFn == InitFn /\ [][NextFn]_vars

(***************************************************************************)
(* The backend's flights and the handlers of the campaigns view            *)
(***************************************************************************)

H0 == FirstHour
H1 == FirstHour + HourSpan

RECURSIVE Without(_, _)
Without(seq, i) ==
    IF seq = <<>> THEN <<>>
    ELSE IF i = 1 THEN Tail(seq)
    ELSE <<Head(seq)>> \o Without(Tail(seq), i - 1)

Range(seq) == { seq[i] : i \in 1 .. Len(seq) }

\* the flights of the airport WAW, as the backend lists them
FlightRowList ==
    << Flight("LO101", Some("arrival"), Some(Timestamp(H0, 0, 0)),
             Some(Timestamp(H0, 0, 0)), Pax(MaxPax \div 2)),
      Flight("LO102", Some("ARR"), Some(Timestamp(H0, 10, 0)),
             Some(Timestamp(H0, 17, 30)), NULL),
      Flight("LO103", Some("Arrival"), Some(Timestamp(H1, 5, 0)), NULL,
             Pax(MaxPax)),
      Flight("LO201", Some("departure"), Some(Timestamp(H1, 0, 0)), NULL,
             Pax(MaxPax)),
      Flight("LO202", Some("DEP"), Some(Timestamp(H1, 10, 0)),
             Some(Timestamp(H1, 17, 30)), Pax(1)),
      Flight("LO203", Some("Departure"), Some(Timestamp(H0, 55, 0)),
             Some(Timestamp(H0, 55, 0)), Pax(0)),
      Flight("LO101", Some("departure"), Some(Timestamp(H1, 30, 0)), NULL,
             Pax(MaxPax \div 2)),
      Flight("LO301", Some("charter"), Some(Timestamp(H1, 0, 0)), NULL,
             Pax(MaxPax \div 2)),
      Flight("LO302", NULL, Some(Timestamp(H0, 30, 0)), NULL, Pax(MaxPax)),
      Flight("LO104", Some("arrival"), NULL, NULL, Pax(MaxPax)),
      Flight("LO204", Some("departure"), Some(Timestamp(H1, 5, 0)), NULL,
             Pax(2)),
      Flight("LO105", Some("arrival"), Some(NextDay(Timestamp(H0, 0, 0))), NULL,
             Pax(MaxPax \div 2)) >>

\* the rows of the flights table (rowData) of a campaign at WAW
FlightRows == Range(FlightRowList)

\* the backend's flights by airport (.eq('airport_iata', ...))
FlightsAt(airport) ==
    CASE airport = "WAW" -> FlightRowList
      [] airport = "KRK" ->
            << Flight("FR501", Some("arrival"), Some(Timestamp(H0, 30, 0)),
                      Some(Timestamp(H0, 35, 0)), Pax(MaxPax \div 5)) >>
      [] OTHER -> <<>>

\* .gte('created_at', startOfDay).lte('created_at', endOfDay), and
\* .eq('campaign_status', statusFilter) unless the filter is 'ALL'
CampaignMatches(row, day, status) ==
    /\ row.created_at.day = day
    /\ status # "ALL" => row.campaign_status = status

\* .order('created_at', { ascending: false })
RECURSIVE OrderByCreatedDesc(_, _)
OrderByCreatedDesc(table, ids) ==
    IF ids = {} THEN <<>>
    ELSE LET top == CHOOSE id \in ids : \A o \in ids :
                        \/ table[id].created_at.day > table[o].created_at.day
                        \/ /\ table[id].created_at.day = table[o].created_at.day
                           /\ table[id].created_at.minute > table[o].created_at.minute
                        \/ /\ table[id].created_at = table[o].created_at
                           /\ id <= o
         IN  <<table[top]>> \o OrderByCreatedDesc(table, ids \ {top})

\* the rows the query of fetchCampaigns selects
CampaignsQuery(table, day, status) ==
    OrderByCreatedDesc(table,
        { id \in DOMAIN table : CampaignMatches(table[id], day, status) })

Snack(message, severity) ==
    [open |-> TRUE, message |-> message, severity |-> severity]

\* fetchCampaigns as created with the given selectedDate and statusFilter, up
\* to its await
fetchCampaigns(date, status) ==
    IF date = NULL
    THEN /\ campaigns' = <<>>
         /\ UNCHANGED <<loading, campaignRequests>>
    ELSE /\ loading' = TRUE
         /\ campaignRequests' =
               Append(campaignRequests, [selectedDate |-> date, statusFilter |-> status])
         /\ UNCHANGED campaigns

\* what the awaited query of a call of fetchCampaigns can give
QueryOutcomes == {"data", "null", "error", "throws"}

\* the query of a call of fetchCampaigns returns and the call runs to its end
fetchCampaignsReturns ==
    \E i \in 1 .. Len(campaignRequests), outcome \in QueryOutcomes :
        /\ campaigns' =
              IF outcome = "data"
              THEN CampaignsQuery(campaignsTable,
                                  campaignRequests[i].selectedDate[1],
                                  campaignRequests[i].statusFilter)
              ELSE <<>>
        /\ loading' = FALSE
        /\ campaignRequests' = Without(campaignRequests, i)
        /\ UNCHANGED <<selectedDate, statusFilter, flightsVars, snackbar, editVars,
                       gridVars, curveVars, cdfVars, seriesVars, serviceVars>>

\* the calendar's onChange: setSelectedDate, and the effect calls the new
\* fetchCampaigns
setSelectedDate ==
    /\ Len(campaignRequests) < MaxRequests
    /\ \E date \in Dates \ {selectedDate} :
          /\ selectedDate' = date
          /\ fetchCampaigns(date, statusFilter)
    /\ UNCHANGED <<statusFilter, flightsVars, snackbar, editVars,
                   gridVars, curveVars, cdfVars, seriesVars, serviceVars>>

\* the status select: setStatusFilter, and the effect calls the new
\* fetchCampaigns
handleStatusChange ==
    /\ Len(campaignRequests) < MaxRequests
    /\ \E status \in StatusFilters \ {statusFilter} :
          /\ statusFilter' = status
          /\ fetchCampaigns(selectedDate, status)
    /\ UNCHANGED <<selectedDate, flightsVars, snackbar, editVars,
                   gridVars, curveVars, cdfVars, seriesVars, serviceVars>>

\* the answer of the backend function get_campaign_flights for a campaign:
\* the flights of its target airport
RpcFlights(campaign) == FlightsAt(campaign.ad_iata_target)

\* .order('actual_time_utc', { ascending: true })
RECURSIVE OrderByActual(_)
OrderByActual(rows) ==
    IF rows = <<>> THEN <<>>
    ELSE LET first == CHOOSE i \in 1 .. Len(rows) : \A j \in 1 .. Len(rows) :
                          \/ Unix(rows[i].actual_time_utc[1]) < Unix(rows[j].actual_time_utc[1])
                          \/ /\ Unix(rows[i].actual_time_utc[1]) = Unix(rows[j].actual_time_utc[1])
                             /\ i <= j
         IN  <<rows[first]>> \o OrderByActual(Without(rows, first))

\* the fallback query: the airport's flights whose actual time lies in the ad
\* window, by actual time, each mapped to avg_pax_est: 100
FallbackFlights(campaign) ==
    LET rows == FlightsAt(campaign.ad_iata_target)
        inWindow == SelectSeq(rows, LAMBDA f :
                        /\ f.actual_time_utc # NULL
                        /\ Unix(f.actual_time_utc[1]) >= Unix(campaign.ad_window_start[1])
                        /\ Unix(f.actual_time_utc[1]) <= Unix(campaign.ad_window_end[1]))
        ordered == OrderByActual(inWindow)
    IN  [k \in 1 .. Len(ordered) |-> [ordered[k] EXCEPT !.avg_pax_est = Pax(DEFAULT_PAX)]]

\* fetchCampaignFlights(campaign) up to its first await
fetchCampaignFlights(campaign) ==
    IF campaign.ad_window_start = NULL \/ campaign.ad_window_end = NULL
    THEN /\ campaignFlights' = <<>>
         /\ snackbar' = Snack(<<"Campaign missing ad window dates">>, "error")
         /\ UNCHANGED <<loadingFlights, flightRequests>>
    ELSE /\ loadingFlights' = TRUE
         /\ flightRequests' =
               Append(flightRequests, [campaign |-> campaign, await |-> "rpc"])
         /\ UNCHANGED <<campaignFlights, snackbar>>

\* what an awaited call of the backend can give
RpcOutcomes == {"data", "null", "error", "throws"}

\* setCampaignFlights(rows) with the message shown for an empty list
ShowFlights(rows, message) ==
    /\ campaignFlights' = rows
    /\ snackbar' = IF Len(rows) = 0 THEN Snack(message, "error") ELSE snackbar

\* the rpc of a call of fetchCampaignFlights returns: with an error the call
\* goes on to await the fallback query, otherwise it runs to its end
fetchCampaignFlightsRpcReturns ==
    \E i \in 1 .. Len(flightRequests), outcome \in RpcOutcomes :
        LET campaign == flightRequests[i].campaign
        IN  /\ flightRequests[i].await = "rpc"
            /\ IF outcome = "error"
               THEN /\ flightRequests' = [flightRequests EXCEPT ![i].await = "fallback"]
                    /\ UNCHANGED <<campaignFlights, snackbar, loadingFlights>>
               ELSE /\ IF outcome = "throws"
                       THEN /\ snackbar' = Snack(<<"Failed to fetch flights">>, "error")
                            /\ campaignFlights' = <<>>
                       ELSE ShowFlights(
                                IF outcome = "data" THEN RpcFlights(campaign) ELSE <<>>,
                                <<"No flights found for ", campaign.ad_iata_target,
                                  " between ", campaign.ad_window_start[1],
                                  " and ", campaign.ad_window_end[1]>>)
                    /\ loadingFlights' = FALSE
                    /\ flightRequests' = Without(flightRequests, i)
            /\ UNCHANGED <<selectedCampaign, listVars, editVars,
                           gridVars, curveVars, cdfVars, seriesVars, serviceVars>>

\* the fallback query of a call of fetchCampaignFlights returns and the call
\* runs to its end
fetchCampaignFlightsFallbackReturns ==
    \E i \in 1 .. Len(flightRequests), outcome \in RpcOutcomes :
        LET campaign == flightRequests[i].campaign
        IN  /\ flightRequests[i].await = "fallback"
            /\ CASE outcome = "error" ->
                       /\ snackbar' = Snack(<<"Error: ", "fallbackError.message">>, "error")
                       /\ campaignFlights' = <<>>
                 [] outcome = "throws" ->
                       /\ snackbar' = Snack(<<"Failed to fetch flights">>, "error")
                       /\ campaignFlights' = <<>>
                 [] OTHER ->
                       ShowFlights(
                           IF outcome = "data" THEN FallbackFlights(campaign) ELSE <<>>,
                           <<"No flights found for ", campaign.ad_iata_target,
                             " in window">>)
            /\ loadingFlights' = FALSE
            /\ flightRequests' = Without(flightRequests, i)
            /\ UNCHANGED <<selectedCampaign, listVars, editVars,
                           gridVars, curveVars, cdfVars, seriesVars, serviceVars>>

\* the columns of the campaigns table a click can land on
CampaignColumns ==
    {"0", "campaign_status", "campaign_status_comments", "flight_number"}

\* a row of the campaigns table (rendered while not loading) is clicked:
\* nothing happens on the checkbox and the editable cells; otherwise the
\* campaign is selected, the flight selection and the grid are emptied and
\* the campaign's flights are fetched
onRowClicked ==
    /\ ~loading
    /\ Len(flightRequests) < MaxRequests
    /\ \E campaign \in Range(campaigns), column \in CampaignColumns :
          IF column \in {"0", "campaign_status", "campaign_status_comments"}
          THEN UNCHANGED vars
          ELSE /\ selectedCampaign' = Some(campaign)
               /\ selectedFlights' = <<>>
               /\ passengerGridData' = <<>>
               /\ fetchCampaignFlights(campaign)
               /\ UNCHANGED <<listVars, editVars, curveVars, cdfVars, seriesVars, serviceVars>>

\* the 'Close' button of the flights section, rendered while a campaign is
\* selected
CloseFlights ==
    /\ selectedCampaign # NULL
    /\ selectedCampaign' = NULL
    /\ campaignFlights' = <<>>
    /\ UNCHANGED <<loadingFlights, flightRequests, listVars, snackbar, editVars,
                   gridVars, curveVars, cdfVars, seriesVars, serviceVars>>

(***************************************************************************)
(* Spec: the flights of a campaign are on screen; the selection of flight  *)
(* rows and the grid derived from it, up to the clicks on campaign rows    *)
(* (the answers to the fetches are explored in SpecList and SpecFlights)   *)
(***************************************************************************)

\* the campaigns of today are listed (reached in SpecList)
ListLoaded ==
    /\ selectedDate = Some(Today)
    /\ statusFilter = "PENDING_REVIEW"
    /\ campaigns = CampaignsQuery(InitialCampaigns, Today, "PENDING_REVIEW")
    /\ loading = FALSE
    /\ campaignRequests = <<>>
    /\ pendingChanges = <<>>
    /\ savingChanges = FALSE
    /\ saveRun = NULL
    /\ campaignsTable = InitialCampaigns

\* and the flights of campaign 1 are listed (reached in SpecFlights)
FlightsLoaded ==
    /\ ListLoaded
    /\ selectedCampaign = Some(InitialCampaigns[1])
    /\ campaignFlights = FlightRowList
    /\ loadingFlights = FALSE
    /\ flightRequests = <<>>
    /\ snackbar = [open |-> FALSE, message |-> <<>>, severity |-> "success"]

\* no function of the model has been called
NotCalled ==
    /\ curveIn = NULL /\ curveOut = NULL /\ curvePrev = NULL
    /\ flight = NULL /\ results = NULL
    /\ cdfIn = NULL /\ cdfOut = NULL /\ cdfPrev = NULL

Init ==
    /\ FlightsLoaded
    /\ selectedFlights = <<>>
    /\ passengerGridData = <<>>
    /\ NotCalled
    /\ ServicesLoaded

onFlightSelectionChanged(selected) ==
    /\ selectedFlights' = selected
    /\ passengerGridData' = IF Len(selected) > 0
                            THEN calculatePassengerGridData(selected)
                            ELSE <<>>
    /\ UNCHANGED <<curveVars, cdfVars, seriesVars, viewVars, serviceVars>>

\* the flights table is rendered
FlightsShown ==
    selectedCampaign # NULL /\ ~loadingFlights /\ Len(campaignFlights) > 0

\* a flight row is ticked: event.api.getSelectedRows() now ends with it
SelectFlight ==
    /\ FlightsShown
    /\ Len(selectedFlights) < MaxSelected
    /\ \E f \in Range(campaignFlights) \ Range(selectedFlights) :
          onFlightSelectionChanged(Append(selectedFlights, f))

\* a selected flight row is unticked
DeselectFlight ==
    /\ FlightsShown
    /\ \E i \in 1 .. Len(selectedFlights) :
          onFlightSelectionChanged(Without(selectedFlights, i))

\* mutation of ClearSelection: the grid is left as it was
ClearSelectionKeepsGrid ==
    /\ selectedCampaign # NULL
    /\ Len(selectedFlights) > 0
    /\ selectedFlights' = <<>>
    /\ UNCHANGED <<passengerGridData, curveVars, cdfVars, seriesVars, viewVars, serviceVars>>

\* the 'Clear Selection' button, rendered while flights are selected
ClearSelection ==
    /\ selectedCampaign # NULL
    /\ Len(selectedFlights) > 0
    /\ selectedFlights' = <<>>
    /\ passengerGridData' = <<>>
    /\ UNCHANGED <<curveVars, cdfVars, seriesVars, viewVars, serviceVars>>

Next == SelectFlight \/ DeselectFlight \/ ClearSelection \/ onRowClicked

Spec == Init /\ [][Next]_vars

(***************************************************************************)
(* SpecList: the campaigns table under changes of the day and of the       *)
(* status filter                                                           *)
(***************************************************************************)

\* after the first render the effect has called fetchCampaigns
InitList ==
    /\ selectedDate = Some(Today)
    /\ statusFilter = "PENDING_REVIEW"
    /\ campaigns = <<>>
    /\ loading = TRUE
    /\ campaignRequests = <<[selectedDate |-> Some(Today), statusFilter |-> "PENDING_REVIEW"]>>
    /\ selectedCampaign = NULL
    /\ campaignFlights = <<>>
    /\ loadingFlights = FALSE
    /\ flightRequests = <<>>
    /\ snackbar = [open |-> FALSE, message |-> <<>>, severity |-> "success"]
    /\ pendingChanges = <<>>
    /\ savingChanges = FALSE
    /\ saveRun = NULL
    /\ campaignsTable = InitialCampaigns
    /\ selectedFlights = <<>>
    /\ passengerGridData = <<>>
    /\ NotCalled
    /\ ServicesLoaded

NextList == setSelectedDate \/ handleStatusChange \/ fetchCampaignsReturns

SpecList == InitList /\ [][NextList]_vars

(***************************************************************************)
(* SpecFlights: the campaigns are listed; clicks on campaign rows and the  *)
(* answers to the fetches of their flights                                 *)
(***************************************************************************)

InitFlights ==
    /\ ListLoaded
    /\ selectedCampaign = NULL
    /\ campaignFlights = <<>>
    /\ loadingFlights = FALSE
    /\ flightRequests = <<>>
    /\ snackbar = [open |-> FALSE, message |-> <<>>, severity |-> "success"]
    /\ selectedFlights = <<>>
    /\ passengerGridData = <<>>
    /\ NotCalled
    /\ ServicesLoaded

NextFlights ==
    \/ onRowClicked
    \/ fetchCampaignFlightsRpcReturns
    \/ fetchCampaignFlightsFallbackReturns
    \/ CloseFlights

SpecFlights == InitFlights /\ [][NextFlights]_vars

(***************************************************************************)
(* SpecEdits: the campaigns are listed; cell edits, 'Save Changes' and     *)
(* 'Discard'                                                               *)
(***************************************************************************)

\* the cell edits a user makes: campaign_id, column, new value
EditCells ==
    { <<1, "campaign_status", "SCHEDULED">>,
      <<1, "campaign_status_comments", Some("checked")>>,
      <<2, "campaign_status", "REJECTED">> }

\* the position of a campaign in a Map kept as the sequence of its entries
\* (0: no entry)
EntryOf(map, campaignId) ==
    IF \E k \in 1 .. Len(map) : map[k].campaign_id = campaignId
    THEN CHOOSE k \in 1 .. Len(map) : map[k].campaign_id = campaignId
    ELSE 0

\* newMap.set(campaignId, { ...existing, [field]: newValue })
MapSet(map, campaignId, field, newValue) ==
    LET k == EntryOf(map, campaignId)
        existing == IF k = 0 THEN <<>> ELSE map[k].changes
        changes == [f \in DOMAIN existing \cup {field} |->
                       IF f = field THEN newValue ELSE existing[f]]
    IN  IF k = 0
        THEN Append(map, [campaign_id |-> campaignId, changes |-> changes])
        ELSE [map EXCEPT ![k].changes = changes]

\* a cell of the campaigns table (rendered while not loading) is edited
onCellValueChanged ==
    /\ ~loading
    /\ \E cell \in EditCells :
          /\ \E k \in 1 .. Len(campaigns) : campaigns[k].campaign_id = cell[1]
          /\ pendingChanges' = MapSet(pendingChanges, cell[1], cell[2], cell[3])
    /\ UNCHANGED <<savingChanges, saveRun, campaignsTable, listVars, flightsVars,
                   snackbar, gridVars, curveVars, cdfVars, seriesVars, serviceVars>>

\* 'Save Changes' (enabled while not saving): handleSaveChanges up to its
\* first await, with the pendingChanges and the fetchCampaigns of its render
handleSaveChanges ==
    /\ ~savingChanges
    /\ Len(campaignRequests) < MaxRequests
    /\ Len(pendingChanges) # 0
    /\ savingChanges' = TRUE
    /\ saveRun' = Some([ pendingChanges |-> pendingChanges,
                         entry |-> 1,
                         successCount |-> 0,
                         errorCount |-> 0,
                         selectedDate |-> selectedDate,
                         statusFilter |-> statusFilter ])
    /\ UNCHANGED <<pendingChanges, campaignsTable, listVars, flightsVars,
                   snackbar, gridVars, curveVars, cdfVars, seriesVars, serviceVars>>

\* .update(changes).eq('campaign_id', campaignId) on the backend's table
UpdateCampaign(table, campaignId, changes) ==
    [table EXCEPT ![campaignId] =
        [f \in DOMAIN table[campaignId] |->
            IF f \in DOMAIN changes THEN changes[f] ELSE table[campaignId][f]]]

UpdateOutcomes == {"ok", "error", "throws"}

\* the snackbar after the loop
SavedSnack(run, successCount, errorCount) ==
    IF errorCount > 0
    THEN Snack(<<"Saved ", successCount, ", failed ", errorCount>>,
               IF errorCount = Len(run.pendingChanges) THEN "error" ELSE "success")
    ELSE Snack(<<"Saved ", successCount, " change",
                 IF successCount # 1 THEN "s" ELSE "">>, "success")

\* the awaited update of handleSaveChanges returns: the loop goes on to the
\* next entry, or the call runs to its end
handleSaveChangesUpdateReturns ==
    /\ saveRun # NULL
    /\ \E outcome \in UpdateOutcomes :
          LET run == saveRun[1]
              entry == run.pendingChanges[run.entry]
              successCount == run.successCount + (IF outcome = "ok" THEN 1 ELSE 0)
              errorCount == run.errorCount + (IF outcome = "error" THEN 1 ELSE 0)
          IN  /\ campaignsTable' =
                    IF outcome = "ok"
                    THEN UpdateCampaign(campaignsTable, entry.campaign_id, entry.changes)
                    ELSE campaignsTable
              /\ IF outcome = "throws"
                 THEN /\ snackbar' = Snack(<<"Failed to save changes">>, "error")
                      /\ savingChanges' = FALSE
                      /\ saveRun' = NULL
                      /\ UNCHANGED <<pendingChanges, campaigns, loading, campaignRequests>>
                 ELSE IF run.entry < Len(run.pendingChanges)
                 THEN /\ saveRun' = Some([run EXCEPT !.entry = run.entry + 1,
                                                      !.successCount = successCount,
                                                      !.errorCount = errorCount])
                      /\ UNCHANGED <<pendingChanges, savingChanges, snackbar,
                                     campaigns, loading, campaignRequests>>
                 ELSE /\ snackbar' = SavedSnack(run, successCount, errorCount)
                      /\ pendingChanges' = <<>>
                      /\ fetchCampaigns(run.selectedDate, run.statusFilter)
                      /\ savingChanges' = FALSE
                      /\ saveRun' = NULL
    /\ UNCHANGED <<selectedDate, statusFilter, flightsVars,
                   gridVars, curveVars, cdfVars, seriesVars, serviceVars>>

\* 'Discard' (enabled while not saving)
handleDiscardChanges ==
    /\ ~savingChanges
    /\ Len(campaignRequests) < MaxRequests
    /\ Len(pendingChanges) # 0
    /\ pendingChanges' = <<>>
    /\ fetchCampaigns(selectedDate, statusFilter)
    /\ UNCHANGED <<selectedDate, statusFilter, savingChanges, saveRun, campaignsTable,
                   flightsVars, snackbar, gridVars, curveVars, cdfVars, seriesVars, serviceVars>>

InitEdits == InitFlights

NextEdits ==
    \/ onCellValueChanged
    \/ handleSaveChanges
    \/ handleSaveChangesUpdateReturns
    \/ handleDiscardChanges
    \/ fetchCampaignsReturns

SpecEdits == InitEdits /\ [][NextEdits]_vars

(***************************************************************************)
(* The services: the clock and getFunnelSummary with its cache             *)
(***************************************************************************)

\* a function of a service is called at most this many times
MaxCalls == 3
\* the clock runs up to MaxPeriods * CACHE_TTL + 1
MaxPeriods == 2

CACHE_TTL == 5 * 60 * 1000

\* the instants the clock shows: around the multiples of CACHE_TTL
Instants ==
    { k * CACHE_TTL + d : k \in 0 .. MaxPeriods, d \in {-1, 0, 1} } \ {-1}

\* time passes
Tick ==
    /\ \E t \in Instants : t > now /\ now' = t
    /\ UNCHANGED <<funnelCache, funnelCalls, dataCache, causeCalls,
                   viewVars, gridVars, curveVars, cdfVars, seriesVars>>

FunnelRow(period, flights, disrupted, campaignsCount) ==
    [ period |-> period, flights_count |-> flights,
      disrupted_count |-> disrupted, campaigns_count |-> campaignsCount ]

\* what supabase.rpc('get_funnel_summary') can resolve to: the summary as
\* the backend has it at the time (two versions), no data, an error
FunnelResponses ==
    { [data |-> Some(<<FunnelRow("today", 10, 2, 1), FunnelRow("all_time", 90, 9, 4)>>),
       error |-> NULL],
      [data |-> Some(<<FunnelRow("today", 11, 2, 1), FunnelRow("all_time", 91, 9, 4)>>),
       error |-> NULL],
      [data |-> NULL, error |-> NULL],
      [data |-> NULL, error |-> Some("rpc failed")] }

\* data ?? []
OrEmpty(data) == IF data = NULL THEN <<>> ELSE data[1]

\* mutation of getFunnelSummary: the entry still counts as valid when it is
\* exactly CACHE_TTL old
getFunnelSummaryValidAtTtl ==
    /\ Len(funnelCalls) < MaxCalls
    /\ funnelCalls' =
          Append(funnelCalls,
              IF funnelCache # NULL /\ now - funnelCache[1].timestamp <= CACHE_TTL
              THEN [state |-> "returned", response |-> NULL,
                    value |-> Some(funnelCache[1].data)]
              ELSE [state |-> "rpc", response |-> NULL, value |-> NULL])
    /\ UNCHANGED <<now, funnelCache, dataCache, causeCalls,
                   viewVars, gridVars, curveVars, cdfVars, seriesVars>>

\* getFunnelSummary() is called: it returns the cached data, or goes on to
\* await the rpc
getFunnelSummary ==
    /\ Len(funnelCalls) < MaxCalls
    /\ funnelCalls' =
          Append(funnelCalls,
              IF funnelCache # NULL /\ now - funnelCache[1].timestamp < CACHE_TTL
              THEN [state |-> "returned", response |-> NULL,
                    value |-> Some(funnelCache[1].data)]
              ELSE [state |-> "rpc", response |-> NULL, value |-> NULL])
    /\ UNCHANGED <<now, funnelCache, dataCache, causeCalls,
                   viewVars, gridVars, curveVars, cdfVars, seriesVars>>

\* the rpc of a call of getFunnelSummary resolves and the call runs to its
\* end
getFunnelSummaryRpcReturns ==
    /\ \E k \in 1 .. Len(funnelCalls), response \in FunnelResponses :
          /\ funnelCalls[k].state = "rpc"
          /\ IF response.error # NULL
             THEN /\ funnelCalls' = [funnelCalls EXCEPT ![k] =
                         [state |-> "returned", response |-> Some(response),
                          value |-> Some(<<>>)]]
                  /\ UNCHANGED funnelCache
             ELSE /\ funnelCache' = Some([data |-> OrEmpty(response.data),
                                          timestamp |-> now])
                  /\ funnelCalls' = [funnelCalls EXCEPT ![k] =
                         [state |-> "returned", response |-> Some(response),
                          value |-> Some(OrEmpty(response.data))]]
    /\ UNCHANGED <<now, dataCache, causeCalls,
                   viewVars, gridVars, curveVars, cdfVars, seriesVars>>

\* the rpc of a call of getFunnelSummary rejects: so does the call
getFunnelSummaryRpcThrows ==
    /\ \E k \in 1 .. Len(funnelCalls) :
          /\ funnelCalls[k].state = "rpc"
          /\ funnelCalls' = [funnelCalls EXCEPT ![k].state = "rejected"]
    /\ UNCHANGED <<now, funnelCache, dataCache, causeCalls,
                   viewVars, gridVars, curveVars, cdfVars, seriesVars>>

clearFunnelCache ==
    /\ funnelCache' = NULL
    /\ UNCHANGED <<now, funnelCalls, dataCache, causeCalls,
                   viewVars, gridVars, curveVars, cdfVars, seriesVars>>

\* SpecFunnel: calls of getFunnelSummary and clearFunnelCache as time passes
InitFunnel ==
    /\ ServicesLoaded
    /\ ViewConstructed
    /\ selectedFlights = <<>>
    /\ passengerGridData = <<>>
    /\ curveIn = NULL /\ curveOut = NULL /\ curvePrev = NULL
    /\ flight = NULL /\ results = NULL
    /\ cdfIn = NULL /\ cdfOut = NULL /\ cdfPrev = NULL

NextFunnel ==
    \/ Tick
    \/ getFunnelSummary
    \/ getFunnelSummaryRpcReturns
    \/ getFunnelSummaryRpcThrows
    \/ clearFunnelCache

SpecFunnel == InitFunnel /\ [][NextFunnel]_vars

(***************************************************************************)
(* The services: getCauseCodeData with its cache                           *)
(***************************************************************************)

\* getCauseCodeData is called at most this many times
MaxCauseCalls == 2

UnknownFlight(number, created) ==
    [ flight_number |-> number, d_scheduled_time_utc |-> "2024-05-01T10:00:00Z",
      d_airport_iata |-> Some("WAW"), a_airport_iata |-> Some("KRK"),
      created_at |-> created, cause_code |-> "UNKNOWN" ]

Audit(number, changed, newValue) ==
    [ flight_number |-> number, d_scheduled_time_utc |-> "2024-05-01T10:00:00Z",
      old_value |-> "UNKNOWN", new_value |-> newValue, changed_at |-> changed ]

\* what the two queries can resolve to (times in ms): the second audit entry
\* was changed before its flight was created
UnknownResponses ==
    { [data |-> Some(<<UnknownFlight("LO30", 7200000)>>), error |-> NULL],
      [data |-> NULL, error |-> Some("query failed")] }

AuditResponses ==
    { [data |-> Some(<<Audit("LO10", 5400000, "WEATHER")>>), error |-> NULL],
      [data |-> Some(<<Audit("LO20", 0, "TECHNICAL")>>), error |-> NULL],
      [data |-> Some(<<>>), error |-> NULL],
      [data |-> NULL, error |-> Some("query failed")] }

\* what the query of one flight's details can resolve to: the row (created
\* at 01:00:00.000 of the first day) or nothing
DetailResponses ==
    { Some([d_airport_iata |-> Some("WAW"), a_airport_iata |-> Some("KRK"),
            created_at |-> Some(3600000)]),
      NULL }

\* (unknownData ?? []).map(...)
MapUnknown(unknownData) ==
    LET rows == OrEmpty(unknownData)
    IN  [k \in 1 .. Len(rows) |->
            [ flight_number |-> rows[k].flight_number,
              d_scheduled_time_utc |-> rows[k].d_scheduled_time_utc,
              d_airport_iata |-> rows[k].d_airport_iata,
              a_airport_iata |-> rows[k].a_airport_iata,
              created_at |-> rows[k].created_at,
              cause_code |-> rows[k].cause_code ]]

\* the resolved flight pushed for an audit entry; resolution_time_hours is
\* a real scaled by ONE: (changedAt - createdAt) / (1000 * 60 * 60)
ResolvedFlight(audit, flightData) ==
    LET resolutionHours == RDiv(audit.changed_at - flightData.created_at[1], 360)
    IN  [ flight_number |-> audit.flight_number,
          d_scheduled_time_utc |-> audit.d_scheduled_time_utc,
          d_airport_iata |-> flightData.d_airport_iata,
          a_airport_iata |-> flightData.a_airport_iata,
          created_at |-> flightData.created_at[1],
          resolved_at |-> audit.changed_at,
          old_cause_code |-> audit.old_value,
          new_cause_code |-> audit.new_value,
          resolution_time_hours |-> IF resolutionHours >= 0 THEN resolutionHours ELSE 0 ]

\* a call of getCauseCodeData that awaits its first query
CauseCallStarted ==
    [ state |-> "unknown", unknownData |-> NULL, unknownError |-> NULL,
      auditData |-> NULL, auditError |-> NULL, audit |-> 0,
      resolvedFlights |-> <<>>, value |-> NULL ]

\* getCauseCodeData() is called: it returns the cached data, or goes on to
\* await the query of the unknown flights
getCauseCodeData ==
    /\ Len(causeCalls) < MaxCauseCalls
    /\ causeCalls' =
          Append(causeCalls,
              IF dataCache # NULL /\ now - dataCache[1].timestamp < CACHE_TTL
              THEN [CauseCallStarted EXCEPT !.state = "returned",
                                            !.value = Some(dataCache[1].data)]
              ELSE CauseCallStarted)
    /\ UNCHANGED <<now, dataCache, funnelCache, funnelCalls,
                   viewVars, gridVars, curveVars, cdfVars, seriesVars>>

\* the query of the unknown flights resolves: the call goes on to await the
\* query of the audit log
getCauseCodeDataUnknownReturns ==
    /\ \E k \in 1 .. Len(causeCalls), response \in UnknownResponses :
          /\ causeCalls[k].state = "unknown"
          /\ causeCalls' = [causeCalls EXCEPT ![k].state = "audit",
                                              ![k].unknownData = response.data,
                                              ![k].unknownError = response.error]
    /\ UNCHANGED <<now, dataCache, funnelCache, funnelCalls,
                   viewVars, gridVars, curveVars, cdfVars, seriesVars>>

\* the end of a call: the data is built, cached and returned
CauseCallEnds(k, call) ==
    LET data == [ unknownFlights |-> MapUnknown(call.unknownData),
                  resolvedFlights |-> call.resolvedFlights ]
    IN  /\ dataCache' = Some([data |-> data, timestamp |-> now])
        /\ causeCalls' = [causeCalls EXCEPT ![k] =
                             [call EXCEPT !.state = "returned", !.value = Some(data)]]

\* the query of the audit log resolves: the call goes on to await the
\* details of the first audit entry, or runs to its end
getCauseCodeDataAuditReturns ==
    /\ \E k \in 1 .. Len(causeCalls), response \in AuditResponses :
          LET call == [causeCalls[k] EXCEPT !.auditData = response.data,
                                            !.auditError = response.error]
          IN  /\ causeCalls[k].state = "audit"
              /\ IF response.data # NULL /\ Len(response.data[1]) > 0
                 THEN /\ causeCalls' = [causeCalls EXCEPT ![k] =
                             [call EXCEPT !.state = "detail", !.audit = 1]]
                      /\ UNCHANGED dataCache
                 ELSE CauseCallEnds(k, call)
    /\ UNCHANGED <<now, funnelCache, funnelCalls,
                   viewVars, gridVars, curveVars, cdfVars, seriesVars>>

\* the details of an audit entry's flight resolve: the call goes on to the
\* next audit entry, or runs to its end
getCauseCodeDataDetailReturns ==
    /\ \E k \in 1 .. Len(causeCalls), flightData \in DetailResponses :
          LET audit == causeCalls[k].auditData[1][causeCalls[k].audit]
              found == flightData # NULL /\ flightData[1].created_at # NULL
              call == [causeCalls[k] EXCEPT !.resolvedFlights =
                          IF found
                          THEN Append(@, ResolvedFlight(audit, flightData[1]))
                          ELSE @]
          IN  /\ causeCalls[k].state = "detail"
              /\ IF causeCalls[k].audit < Len(causeCalls[k].auditData[1])
                 THEN /\ causeCalls' = [causeCalls EXCEPT ![k] =
                             [call EXCEPT !.audit = @ + 1]]
                      /\ UNCHANGED dataCache
                 ELSE CauseCallEnds(k, call)
    /\ UNCHANGED <<now, funnelCache, funnelCalls,
                   viewVars, gridVars, curveVars, cdfVars, seriesVars>>

\* an awaited query of a call of getCauseCodeData rejects: so does the call
getCauseCodeDataThrows ==
    /\ \E k \in 1 .. Len(causeCalls) :
          /\ causeCalls[k].state \in {"unknown", "audit", "detail"}
          /\ causeCalls' = [causeCalls EXCEPT ![k].state = "rejected"]
    /\ UNCHANGED <<now, dataCache, funnelCache, funnelCalls,
                   viewVars, gridVars, curveVars, cdfVars, seriesVars>>

clearCauseCodeDataCache ==
    /\ dataCache' = NULL
    /\ UNCHANGED <<now, causeCalls, funnelCache, funnelCalls,
                   viewVars, gridVars, curveVars, cdfVars, seriesVars>>

\* SpecCauseCode: calls of getCauseCodeData and clearCauseCodeDataCache as
\* time passes
NextCauseCode ==
    \/ Tick
    \/ getCauseCodeData
    \/ getCauseCodeDataUnknownReturns
    \/ getCauseCodeDataAuditReturns
    \/ getCauseCodeDataDetailReturns
    \/ getCauseCodeDataThrows
    \/ clearCauseCodeDataCache

SpecCauseCode == InitFunnel /\ [][NextCauseCode]_vars

(***************************************************************************)
(* Properties                                                              *)
(***************************************************************************)

\* what the properties read off a flight record
TypeOf(f) == IF f.flight_type = NULL THEN "" ELSE ToLowerCase(f.flight_type[1])
IsArrivalFlight(f) == TypeOf(f) \in {"arrival", "arr"}
IsDepartureFlight(f) == TypeOf(f) \in {"departure", "dep"}
HasAnchor(f) == f.actual_time_utc # NULL \/ f.scheduled_time_utc # NULL
AnchorOf(f) ==
    Unix(IF f.actual_time_utc # NULL THEN f.actual_time_utc[1]
         ELSE f.scheduled_time_utc[1])
\* the departure window start: (t_dep - 3 h) rounded down to a whole hour
OpenOf(tDep) == ((tDep - 3 * 3600) \div 3600) * 3600
Called == curveIn # NULL /\ curveOut # NULL
\* the estimate N used for a flight, and whether it is a whole number
NOf(f) == PaxOrDefault(f.avg_pax_est)
Whole(N) == N % ONE = 0

\* C2: for every N >= 0 and every window t_land < t_end, arrivalsExitLogNormal
\* returns exactly N for every t <= t_land and exactly 0 for every t >= t_end.
C2_ArrivalBoundaries ==
    (Called /\ curveIn.N >= 0 /\ curveIn.tA < curveIn.tB) =>
        /\ curveIn.t <= curveIn.tA => curveOut[1].arr = curveIn.N
        /\ curveIn.t >= curveIn.tB => curveOut[1].arr = 0

\* C2 witness: with N > 0, a call at t_land returned N and the next call, at
\* t_end, returned 0
C2_Witness ==
    /\ Called /\ curvePrev # NULL
    /\ curveIn.N > 0
    /\ curvePrev[1].t = curveIn.tA /\ curvePrev[1].out.arr = curveIn.N
    /\ curveIn.t = curveIn.tB /\ curveOut[1].arr = 0

\* C3: for every N >= 0 and every window t_open < t_dep, passengersLogNormal
\* returns exactly 0 for every t <= t_open and exactly N for every t >= t_dep.
C3_DepartureBoundaries ==
    (Called /\ curveIn.N >= 0 /\ curveIn.tA < curveIn.tB) =>
        /\ curveIn.t <= curveIn.tA => curveOut[1].dep = 0
        /\ curveIn.t >= curveIn.tB => curveOut[1].dep = curveIn.N

\* C3 witness: with N > 0, a call at t_open returned 0 and a later call, after
\* t_dep, returned N
C3_Witness ==
    /\ Called /\ curvePrev # NULL
    /\ curveIn.N > 0
    /\ curvePrev[1].t = curveIn.tA /\ curvePrev[1].out.dep = 0
    /\ curveIn.t > curveIn.tB /\ curveOut[1].dep = curveIn.N

\* C4: for N >= 0 the departure curve is non-decreasing in t and stays within
\* 0 .. N, the arrival curve is non-increasing in t and stays within 0 .. N;
\* and along every generated series, in time order, the rounded counts of a
\* departure never decrease and those of an arrival never increase.
C4_Monotonic ==
    /\ (Called /\ curveIn.N >= 0) =>
          /\ 0 <= curveOut[1].arr /\ curveOut[1].arr <= curveIn.N
          /\ 0 <= curveOut[1].dep /\ curveOut[1].dep <= curveIn.N
          /\ (curvePrev # NULL /\ curvePrev[1].t <= curveIn.t) =>
                /\ curvePrev[1].out.arr >= curveOut[1].arr
                /\ curvePrev[1].out.dep <= curveOut[1].dep
    /\ (flight # NULL /\ results # NULL) =>
          \A i \in 1 .. Len(results[1]) - 1 :
             /\ results[1][i].time < results[1][i + 1].time
             /\ IsDepartureFlight(flight) =>
                  results[1][i].passenger_count <= results[1][i + 1].passenger_count
             /\ IsArrivalFlight(flight) =>
                  results[1][i].passenger_count >= results[1][i + 1].passenger_count

\* C4 witness: two successive calls strictly inside the window, the arrival
\* value falling and the departure value rising between them
C4_Witness ==
    /\ Called /\ curvePrev # NULL
    /\ curveIn.tA < curvePrev[1].t /\ curveIn.t < curveIn.tB
    /\ curveOut[1].arr > 0 /\ curveOut[1].arr < curvePrev[1].out.arr
    /\ curvePrev[1].out.arr < curveIn.N
    /\ curvePrev[1].out.dep > 0 /\ curvePrev[1].out.dep < curveOut[1].dep
    /\ curveOut[1].dep < curveIn.N

Distributed == flight # NULL /\ results # NULL
First(seq) == seq[1]
Last(seq) == seq[Len(seq)]
OnStepping(t, from) == (t - from) % 300 = 0

ArrivalSampling(r, tLand) ==
    /\ \A i \in 1 .. Len(r) :
          /\ r[i].time % 300 = 0
          /\ tLand <= r[i].time /\ r[i].time <= tLand + 5400
    /\ \A i \in 1 .. Len(r) - 1 : r[i + 1].time = r[i].time + 300
    /\ Len(r) >= 1
    /\ First(r).time - tLand < 300
    /\ tLand + 5400 - Last(r).time < 300

\* C6 as stated: an arrival series samples from the smallest multiple of
\* 300 s >= t_land in steps of 300 s through t_land + 5400 s, and contains a
\* point at landing + 90 min for every t_land.
C6_Original ==
    (Distributed /\ IsArrivalFlight(flight) /\ HasAnchor(flight)) =>
        /\ ArrivalSampling(results[1], AnchorOf(flight))
        /\ \E i \in 1 .. Len(results[1]) :
              results[1][i].time = AnchorOf(flight) + 5400

\* C6 amended: an arrival series samples every multiple of 300 s from the
\* smallest one >= t_land up to the last one <= t_land + 5400 s; it contains
\* a point at landing + 90 min exactly when t_land is a multiple of 300 s.
C6_ArrivalSampling ==
    (Distributed /\ IsArrivalFlight(flight) /\ HasAnchor(flight)) =>
        /\ ArrivalSampling(results[1], AnchorOf(flight))
        /\ (\E i \in 1 .. Len(results[1]) :
               results[1][i].time = AnchorOf(flight) + 5400)
             <=> AnchorOf(flight) % 300 = 0

\* C6 witness: an arrival landing off the 5-minute grid, whose series ends
\* before landing + 90 min
C6_Witness ==
    /\ Distributed /\ IsArrivalFlight(flight) /\ HasAnchor(flight)
    /\ AnchorOf(flight) % 300 # 0
    /\ Len(results[1]) >= 2
    /\ Last(results[1]).time < AnchorOf(flight) + 5400

\* C7 as stated: an arrival series starts with a point at T carrying N and
\* ends, no later than T + 90 min, with a point carrying 0.
C7_Original ==
    (Distributed /\ IsArrivalFlight(flight) /\ HasAnchor(flight)
       /\ Whole(NOf(flight))) =>
        /\ Len(results[1]) >= 1
        /\ First(results[1]).time = AnchorOf(flight)
        /\ First(results[1]).passenger_count * ONE = NOf(flight)
        /\ Last(results[1]).time <= AnchorOf(flight) + 5400
        /\ Last(results[1]).passenger_count = 0

\* C7 amended: an arrival series starts with a point at the first multiple
\* of 300 s at or after T (T itself exactly when T is such a multiple),
\* carrying N, and ends, no later than T + 90 min, with a point carrying 0
\* (N a whole number of passengers).
C7_ArrivalEnds ==
    (Distributed /\ IsArrivalFlight(flight) /\ HasAnchor(flight)
       /\ Whole(NOf(flight))) =>
        LET T == AnchorOf(flight)
            r == results[1]
        IN  /\ Len(r) >= 2
            /\ First(r).time % 300 = 0
            /\ T <= First(r).time /\ First(r).time < T + 300
            /\ First(r).passenger_count * ONE = NOf(flight)
            /\ Last(r).time <= T + 5400
            /\ Last(r).passenger_count = 0

\* C7 witness: an arrival landing off the 5-minute grid; its series starts
\* after T with N and ends with 0
C7_Witness ==
    /\ Distributed /\ IsArrivalFlight(flight) /\ HasAnchor(flight)
    /\ First(results[1]).time > AnchorOf(flight)
    /\ First(results[1]).passenger_count * ONE = NOf(flight)
    /\ First(results[1]).passenger_count > 1
    /\ Last(results[1]).passenger_count = 0

Rows == 1 .. Len(passengerGridData)
Columns == 0 .. Len(selectedFlights) - 1
\* the flight of column i
Selected(i) == selectedFlights[i + 1]

RECURSIVE SumOver(_, _)
SumOver(f, S) ==
    IF S = {} THEN 0
    ELSE LET x == CHOOSE y \in S : TRUE IN f[x] + SumOver(f, S \ {x})

\* C1: in every row of the grid of a non-empty selection, total equals the
\* exact sum of that row's per-flight columns flight_0 .. flight_{n-1}.
C1_TotalIsSum ==
    /\ Len(selectedFlights) > 0 => Len(passengerGridData) > 0
    /\ \A r \in Rows :
          /\ DOMAIN passengerGridData[r].flight = Columns
          /\ passengerGridData[r].total
                = SumOver(passengerGridData[r].flight, Columns)

\* C1 witness: a row with two non-zero columns
C1_Witness ==
    \E r \in Rows : \E i, j \in Columns :
        /\ i # j
        /\ passengerGridData[r].flight[i] > 0
        /\ passengerGridData[r].flight[j] > 0
        /\ passengerGridData[r].total
              >= passengerGridData[r].flight[i] + passengerGridData[r].flight[j]

\* the value of a flight's own model at instant t
ModelAt(f, t) ==
    IF IsArrivalFlight(f)
    THEN arrivalsExitLogNormal(t, NOf(f), AnchorOf(f),
                               AnchorOf(f) + 5400)
    ELSE passengersLogNormal(t, NOf(f), OpenOf(AnchorOf(f)), AnchorOf(f))

\* arrival and departure flights with an anchor time
Modelled(f) == HasAnchor(f) /\ (IsArrivalFlight(f) \/ IsDepartureFlight(f))

\* C8 as stated: every column of an arrival or departure holds the rounded
\* value of its model at the row's instant, except for an arrival before its
\* landing; so a departure's column holds round(passengersLogNormal(t, ...))
\* in every row, the rows after t_dep included.
C8_Original ==
    \A r \in Rows : \A i \in Columns :
        LET f == Selected(i)
            t == passengerGridData[r].time
        IN  (Modelled(f) /\ ~(IsArrivalFlight(f) /\ t < AnchorOf(f))) =>
                passengerGridData[r].flight[i] = MathRound(ModelAt(f, t))

\* C8 amended: every column of an arrival or departure holds the rounded
\* value of its model at the row's instant, with two exceptions, where it
\* holds 0: an arrival before its landing and a departure after its
\* departure instant.
C8_ColumnIsModel ==
    \A r \in Rows : \A i \in Columns :
        LET f == Selected(i)
            t == passengerGridData[r].time
        IN  Modelled(f) =>
              passengerGridData[r].flight[i] =
                 IF \/ IsArrivalFlight(f) /\ t < AnchorOf(f)
                    \/ IsDepartureFlight(f) /\ t > AnchorOf(f)
                 THEN 0
                 ELSE MathRound(ModelAt(f, t))

\* C8 witness: a departure with N passengers whose column holds N at t_dep
\* and 0 in the next row, and a value strictly between in an earlier row
C8_Witness ==
    \E i \in Columns : \E r \in Rows :
        /\ Modelled(Selected(i)) /\ IsDepartureFlight(Selected(i))
        /\ r > 1 /\ r < Len(passengerGridData)
        /\ passengerGridData[r].time = AnchorOf(Selected(i))
        /\ passengerGridData[r].flight[i] * ONE = NOf(Selected(i))
        /\ passengerGridData[r - 1].flight[i] > 0
        /\ passengerGridData[r - 1].flight[i] < passengerGridData[r].flight[i]
        /\ passengerGridData[r + 1].flight[i] = 0

\* C9: an arrival's column is 0 in every row strictly before its landing
\* instant and is the full count N in the row at the landing instant.
C9_ArrivalBeforeLanding ==
    \A r \in Rows : \A i \in Columns :
        LET f == Selected(i)
            t == passengerGridData[r].time
        IN  (IsArrivalFlight(f) /\ HasAnchor(f)) =>
               /\ t < AnchorOf(f) => passengerGridData[r].flight[i] = 0
               /\ t = AnchorOf(f) =>
                     passengerGridData[r].flight[i] * ONE = NOf(f)

\* C9 witness: an arrival with a row before its landing (column 0) followed
\* by the row at its landing (column N > 0)
C9_Witness ==
    \E i \in Columns : \E r \in Rows :
        /\ IsArrivalFlight(Selected(i)) /\ HasAnchor(Selected(i))
        /\ r > 1
        /\ passengerGridData[r].time = AnchorOf(Selected(i))
        /\ passengerGridData[r].flight[i] > 0
        /\ passengerGridData[r - 1].flight[i] = 0

\* per-flight window start and end as the grid claim states them
WindowStartOf(f) == IF IsArrivalFlight(f) THEN AnchorOf(f) ELSE OpenOf(AnchorOf(f))
WindowEndOf(f) == IF IsArrivalFlight(f) THEN AnchorOf(f) + 5400 ELSE AnchorOf(f)

\* C10: for a non-empty selection of arrival and departure flights that all
\* have an anchor time, the rows are 300 s apart in ascending time order, the
\* first at floor(minStart / 300) * 300 and the last at the last such
\* instant <= maxEnd + 7200 s.
C10_TimeAxis ==
    (Len(selectedFlights) > 0 /\ \A i \in Columns : Modelled(Selected(i))) =>
        LET minStart == CHOOSE x \in {WindowStartOf(Selected(i)) : i \in Columns} :
                           \A i \in Columns : x <= WindowStartOf(Selected(i))
            maxEnd == CHOOSE x \in {WindowEndOf(Selected(i)) : i \in Columns} :
                           \A i \in Columns : x >= WindowEndOf(Selected(i))
            g == passengerGridData
        IN  /\ Len(g) >= 1
            /\ \A r \in 1 .. Len(g) - 1 : g[r + 1].time = g[r].time + 300
            /\ First(g).time % 300 = 0
            /\ First(g).time <= minStart /\ minStart < First(g).time + 300
            /\ Last(g).time <= maxEnd + 7200 /\ maxEnd + 7200 < Last(g).time + 300

\* C10 witness: two flights, the second one's window starting first and off
\* the 5-minute grid, the first one's window ending last
C10_Witness ==
    /\ Len(selectedFlights) = 2
    /\ Modelled(Selected(0)) /\ Modelled(Selected(1))
    /\ WindowStartOf(Selected(1)) < WindowStartOf(Selected(0))
    /\ WindowEndOf(Selected(1)) < WindowEndOf(Selected(0))
    /\ WindowStartOf(Selected(1)) % 300 # 0
    /\ Len(passengerGridData) > 1
    /\ First(passengerGridData).time < WindowStartOf(Selected(1))
    /\ Last(passengerGridData).time >= WindowEndOf(Selected(0)) + 7200 - 300

\* flights whose anchor is a multiple of 300 s
Aligned(f) == HasAnchor(f) /\ AnchorOf(f) % 300 = 0
\* the rows of the grid at instant t
RowsAt(t) == { r \in Rows : passengerGridData[r].time = t }

\* C11 as stated: for a selected arrival and a selected departure with
\* 5-minute-aligned instants, the grid has a row at the landing instant whose
\* arrival column equals the arrival's N and whose departure column is below
\* the departure's N, and a row at the departure instant whose departure
\* column equals the departure's N.
C11_Original ==
    \A i, j \in Columns :
        LET a == Selected(i)
            d == Selected(j)
        IN  (IsArrivalFlight(a) /\ Aligned(a) /\ IsDepartureFlight(d) /\ Aligned(d)) =>
               /\ \E r \in RowsAt(AnchorOf(a)) :
                     /\ passengerGridData[r].flight[i] * ONE = NOf(a)
                     /\ passengerGridData[r].flight[j] * ONE < NOf(d)
               /\ \E r \in RowsAt(AnchorOf(d)) :
                     passengerGridData[r].flight[j] * ONE = NOf(d)

\* C11 amended: as stated, except that the departure column in the row at the
\* landing instant is at most the departure's N; it is below N when the
\* landing is at least one hour before the departure and N >= 2 (N whole
\* numbers).
C11_AlignedRows ==
    \A i, j \in Columns :
        LET a == Selected(i)
            d == Selected(j)
        IN  (IsArrivalFlight(a) /\ Aligned(a) /\ IsDepartureFlight(d) /\ Aligned(d)
               /\ Whole(NOf(a)) /\ Whole(NOf(d))) =>
               /\ \E r \in RowsAt(AnchorOf(a)) :
                     /\ passengerGridData[r].flight[i] * ONE = NOf(a)
                     /\ passengerGridData[r].flight[j] * ONE <= NOf(d)
                     /\ (AnchorOf(a) + 3600 <= AnchorOf(d) /\ NOf(d) >= 2 * ONE) =>
                           passengerGridData[r].flight[j] * ONE < NOf(d)
               /\ \E r \in RowsAt(AnchorOf(d)) :
                     passengerGridData[r].flight[j] * ONE = NOf(d)

\* C11 witness: an arrival landing an hour or more before a departure, both
\* aligned; the landing row holds N of the arrival and a part of the
\* departure's passengers, the departure row all of them
C11_Witness ==
    \E i, j \in Columns :
        /\ IsArrivalFlight(Selected(i)) /\ Aligned(Selected(i))
        /\ IsDepartureFlight(Selected(j)) /\ Aligned(Selected(j))
        /\ AnchorOf(Selected(i)) + 3600 <= AnchorOf(Selected(j))
        /\ \E r \in RowsAt(AnchorOf(Selected(i))) :
              /\ passengerGridData[r].flight[i] * ONE = NOf(Selected(i))
              /\ passengerGridData[r].flight[j] > 0
              /\ passengerGridData[r].flight[j] * ONE < NOf(Selected(j))
        /\ \E r \in RowsAt(AnchorOf(Selected(j))) :
              passengerGridData[r].flight[j] * ONE = NOf(Selected(j))

\* the spellings of the two recognized flight types among the inputs
ArrivalSpellings == {Some("arrival"), Some("arr"), Some("Arrival"), Some("ARR")}
DepartureSpellings == {Some("departure"), Some("dep"), Some("Departure"), Some("DEP")}

\* C12: calculatePassengerDistribution chooses the model by the lower-cased
\* flight_type: for 'arrival' or 'arr' in any letter case the series is the
\* arrival one (within [T, T + 90 min], starting with round(N)), for
\* 'departure' or 'dep' the departure one (from t_open with 0 to t_dep with
\* round(N)); for any other or missing flight_type the result is empty.
C12_ModelByType ==
    (Distributed /\ HasAnchor(flight)) =>
        LET T == AnchorOf(flight)
            r == results[1]
            arrival == flight.flight_type \in ArrivalSpellings
            departure == flight.flight_type \in DepartureSpellings
        IN  /\ arrival =>
                 /\ Len(r) >= 1
                 /\ T <= First(r).time /\ Last(r).time <= T + 5400
                 /\ First(r).passenger_count = MathRound(NOf(flight))
            /\ departure =>
                 /\ Len(r) >= 2
                 /\ First(r).time = OpenOf(T) /\ First(r).passenger_count = 0
                 /\ Last(r).time = T
                 /\ Last(r).passenger_count = MathRound(NOf(flight))
            /\ (~arrival /\ ~departure) => r = <<>>

\* C12 witness: a flight of an unrecognized type, with a scheduled time, for
\* which the call returned the empty list
C12_Witness ==
    /\ Distributed /\ HasAnchor(flight)
    /\ flight.flight_type = Some("charter")
    /\ results[1] = <<>>

\* C13 as stated: a selected flight whose flight_type is none of
\* arrival/arr/departure/dep has 0 in its column in every row of the grid
\* (and so adds nothing to any total).
C13_UnknownTypeIsZero ==
    \A r \in Rows : \A i \in Columns :
        (Selected(i).flight_type \notin ArrivalSpellings \cup DepartureSpellings) =>
            passengerGridData[r].flight[i] = 0

\* the smallest and the largest element of a non-empty set of integers
MinOf(S) == CHOOSE x \in S : \A y \in S : x <= y
MaxOf(S) == CHOOSE x \in S : \A y \in S : x >= y

\* C14 as stated: the anchor is actual_time_utc when present and
\* scheduled_time_utc otherwise; a flight with neither yields no points:
\* calculatePassengerDistribution returns the empty list, and in the grid the
\* flight's column is 0 in every row and the time axis starts and ends where
\* the flights that have an anchor put it.
C14_AnchorOrNoPoints ==
    /\ Distributed =>
          /\ ~HasAnchor(flight) => results[1] = <<>>
          /\ (HasAnchor(flight) /\ IsArrivalFlight(flight)) =>
                 /\ Len(results[1]) >= 1
                 /\ AnchorOf(flight) <= First(results[1]).time
                 /\ First(results[1]).time < AnchorOf(flight) + 300
          /\ (HasAnchor(flight) /\ IsDepartureFlight(flight)) =>
                 /\ Len(results[1]) >= 1
                 /\ Last(results[1]).time = AnchorOf(flight)
    /\ LET anchored == { i \in Columns : HasAnchor(Selected(i)) }
           g == passengerGridData
       IN  /\ \A r \in Rows : \A i \in Columns \ anchored : g[r].flight[i] = 0
           /\ (anchored # {} /\ anchored # Columns
                 /\ \A i \in anchored : Modelled(Selected(i))) =>
                 LET minStart == MinOf({ WindowStartOf(Selected(i)) : i \in anchored })
                     maxEnd == MaxOf({ WindowEndOf(Selected(i)) : i \in anchored })
                 IN  /\ Len(g) >= 1
                     /\ First(g).time <= minStart /\ minStart < First(g).time + 300
                     /\ Last(g).time <= maxEnd + 7200
                     /\ maxEnd + 7200 < Last(g).time + 300

\* avg_pax_est when it is not null, 100 when it is null
StatedN(f) == IF f.avg_pax_est # NULL THEN f.avg_pax_est[1] ELSE 100 * ONE

\* C16 as stated: the N used for a flight is its avg_pax_est whenever that is
\* not null and 100 only when it is null.  N is read off where the models
\* return it: the first point of an aligned arrival and the last point of a
\* departure series, and the grid row at an aligned anchor instant.
C16_EstimateOrDefault ==
    /\ (Distributed /\ HasAnchor(flight)) =>
          /\ (IsArrivalFlight(flight) /\ Aligned(flight)) =>
                First(results[1]).passenger_count = MathRound(StatedN(flight))
          /\ IsDepartureFlight(flight) =>
                Last(results[1]).passenger_count = MathRound(StatedN(flight))
    /\ \A i \in Columns :
          (Modelled(Selected(i)) /\ Aligned(Selected(i))) =>
              \A r \in RowsAt(AnchorOf(Selected(i))) :
                  passengerGridData[r].flight[i] = MathRound(StatedN(Selected(i)))

\* C15 as stated: every point of a series carries an integer passenger_count
\* with 0 <= passenger_count <= N, N the estimate used for the flight, which
\* may be any number, a non-integer included.
C15_Original ==
    Distributed =>
        \A k \in 1 .. Len(results[1]) :
            /\ results[1][k].passenger_count \in Int
            /\ 0 <= results[1][k].passenger_count
            /\ results[1][k].passenger_count * ONE <= NOf(flight)

\* C15 amended: for N >= 0 every point carries an integer passenger_count
\* with 0 <= passenger_count <= N rounded to the nearest integer (so at most
\* N when N is a whole number, and below N + 0.5 always).
C15_CountWithinRounded ==
    (Distributed /\ NOf(flight) >= 0) =>
        \A k \in 1 .. Len(results[1]) :
            /\ results[1][k].passenger_count \in Int
            /\ 0 <= results[1][k].passenger_count
            /\ results[1][k].passenger_count * ONE <= NOf(flight) + ONE \div 2
            /\ Whole(NOf(flight)) =>
                  results[1][k].passenger_count * ONE <= NOf(flight)

\* C15 witness: a flight whose estimate is not a whole number, with a point
\* whose count is above the estimate and a later or earlier point with 0
C15_Witness ==
    /\ Distributed /\ ~Whole(NOf(flight))
    /\ \E k \in 1 .. Len(results[1]) :
          results[1][k].passenger_count * ONE > NOf(flight)
    /\ \E k \in 1 .. Len(results[1]) : results[1][k].passenger_count = 0

\* a divisor that is reached is positive
Divides(w) == w # NULL => w[1] > 0

C18_GridIsRecomputation ==
    passengerGridData =
        IF Len(selectedFlights) > 0
        THEN calculatePassengerGridData(selectedFlights)
        ELSE <<>>

\* C18 witness: two flights selected, with the grid of exactly these two
C18_Witness ==
    /\ Len(selectedFlights) = 2
    /\ Len(passengerGridData) > 0
    /\ DOMAIN First(passengerGridData).flight = {0, 1}
    /\ passengerGridData = calculatePassengerGridData(selectedFlights)

CdfCalled == cdfIn # NULL /\ cdfOut # NULL

\* C19: lognormCDF(x, sigma, scale) returns exactly 0 for every x <= 0, and
\* for x > 0, sigma > 0, scale > 0 a value in [0, 1] that is non-decreasing
\* in x.
C19_LognormCDF ==
    (CdfCalled /\ cdfIn.sigma10 > 0 /\ cdfIn.scale10 > 0) =>
        /\ cdfIn.xn <= 0 => cdfOut[1] = 0
        /\ cdfIn.xn > 0 => 0 <= cdfOut[1] /\ cdfOut[1] <= ONE
        /\ (cdfPrev # NULL /\ cdfPrev[1].xn <= cdfIn.xn) =>
              cdfPrev[1].out <= cdfOut[1]

\* C19 witness: two calls at x > 0, the first returning a value strictly
\* between 0 and 1 and the second, at a larger x, a larger one
C19_Witness ==
    /\ CdfCalled /\ cdfPrev # NULL
    /\ 0 < cdfPrev[1].xn /\ cdfPrev[1].xn < cdfIn.xn
    /\ 0 < cdfPrev[1].out /\ cdfPrev[1].out < cdfOut[1]
    /\ cdfOut[1] < ONE

\* C20: in every series the sample times are strictly increasing:
\* consecutive points are exactly 300 s apart, except that a final departure
\* point at t_dep may follow its predecessor by less than 300 s; the point at
\* t_dep occurs exactly once.
C20_StrictlyIncreasing ==
    Distributed =>
        LET r == results[1]
        IN  /\ \A k \in 1 .. Len(r) - 1 :
                  /\ r[k].time < r[k + 1].time
                  /\ \/ r[k + 1].time = r[k].time + 300
                     \/ /\ IsDepartureFlight(flight)
                        /\ k + 1 = Len(r)
                        /\ r[k + 1].time = AnchorOf(flight)
                        /\ r[k + 1].time < r[k].time + 300
            /\ (IsDepartureFlight(flight) /\ HasAnchor(flight)) =>
                  Cardinality({ k \in 1 .. Len(r) : r[k].time = AnchorOf(flight) }) = 1

\* C20 witness: a departure series whose last point, at t_dep, follows its
\* predecessor by less than 300 s, the points before being 300 s apart
C20_Witness ==
    /\ Distributed /\ IsDepartureFlight(flight) /\ HasAnchor(flight)
    /\ Len(results[1]) >= 3
    /\ Last(results[1]).time = AnchorOf(flight)
    /\ Last(results[1]).time < results[1][Len(results[1]) - 1].time + 300
    /\ results[1][Len(results[1]) - 1].time
          = results[1][Len(results[1]) - 2].time + 300

\* the points of a flight's own series
SeriesOf(f) == calculatePassengerDistribution(f)

\* C21: for every selected arrival or departure flight with an anchor time
\* and every point (t, c) of its series calculatePassengerDistribution(flight)
\* whose time t is the time of a grid row, the flight's column in that row
\* equals c.
C21_SeriesAgreesWithGrid ==
    \A i \in Columns :
        Modelled(Selected(i)) =>
            LET series == SeriesOf(Selected(i))
            IN  \A k \in 1 .. Len(series) : \A r \in Rows :
                    passengerGridData[r].time = series[k].time =>
                        passengerGridData[r].flight[i] = series[k].passenger_count

\* whether column i has a series point on a grid row with a count strictly
\* between 0 and N that the grid column repeats
SharedInnerPoint(i) ==
    LET series == SeriesOf(Selected(i))
    IN  \E k \in 1 .. Len(series) :
            /\ series[k].passenger_count > 0
            /\ series[k].passenger_count * ONE < NOf(Selected(i))
            /\ \E r \in Rows :
                  /\ passengerGridData[r].time = series[k].time
                  /\ passengerGridData[r].flight[i] = series[k].passenger_count

\* C21 witness: an arrival and a departure whose anchor is not on the hour
\* are selected together, and each has such a point
C21_Witness ==
    \E i, j \in Columns :
        /\ Modelled(Selected(i)) /\ IsArrivalFlight(Selected(i))
        /\ Modelled(Selected(j)) /\ IsDepartureFlight(Selected(j))
        /\ AnchorOf(Selected(j)) % 3600 # 0
        /\ SharedInnerPoint(i)
        /\ SharedInnerPoint(j)

\* what a call of fetchCampaignFlights for a campaign can leave in
\* campaignFlights
FlightResults(campaign) ==
    IF campaign.ad_window_start = NULL \/ campaign.ad_window_end = NULL
    THEN {<<>>}
    ELSE {RpcFlights(campaign), FallbackFlights(campaign), <<>>}

\* C22: once no call of fetchCampaignFlights is outstanding, campaignFlights
\* is a result of the call made for the current selectedCampaign (the last
\* campaign clicked), never the result of an earlier click.
C22_FlightsOfSelectedCampaign ==
    (flightRequests = <<>> /\ selectedCampaign # NULL) =>
        campaignFlights \in FlightResults(selectedCampaign[1])

\* what a call of fetchCampaigns for a filter can leave in campaigns
CampaignResults(date, status) ==
    IF date = NULL THEN {<<>>}
    ELSE {CampaignsQuery(campaignsTable, date[1], status), <<>>}

\* C23: once no call of fetchCampaigns is outstanding, campaigns holds a
\* result of the query for the current (selectedDate, statusFilter), never
\* the result of a query issued for an earlier filter value.
C23_CampaignsOfCurrentFilter ==
    campaignRequests = <<>> =>
        campaigns \in CampaignResults(selectedDate, statusFilter)

\* C24: loading is true whenever a call of fetchCampaigns is still awaiting
\* its query, and loadingFlights is true whenever a call of
\* fetchCampaignFlights is still awaiting its rpc or fallback query.
C24_LoadingWhileInFlight ==
    /\ campaignRequests # <<>> => loading
    /\ flightRequests # <<>> => loadingFlights

\* the edits a Map of pending changes records: campaign_id, column, value
EditsOf(map) ==
    UNION { { <<map[k].campaign_id, f, map[k].changes[f]>> : f \in DOMAIN map[k].changes } :
            k \in 1 .. Len(map) }

\* the backend's row holds the edit
Written(edit, table) == table[edit[1]][edit[2]] = edit[3]

\* the cell of the edit has been edited again
Superseded(edit, map) ==
    \E later \in EditsOf(map) : later[1] = edit[1] /\ later[2] = edit[2]

\* C25: no cell edit is silently dropped: an edit recorded in
\* pendingChanges leaves it only when handleDiscardChanges removes it, when
\* a later edit of the same cell replaces it, or with the backend's row
\* holding its value.
C25_NoEditDropped ==
    [][ \/ handleDiscardChanges
        \/ \A edit \in EditsOf(pendingChanges) :
              \/ edit \in EditsOf(pendingChanges')
              \/ Superseded(edit, pendingChanges')
              \/ Written(edit, campaignsTable') ]_vars

\* a call of getFunnelSummary is made in this step, and the call it adds
FunnelCallMade == Len(funnelCalls') = Len(funnelCalls) + 1
NewFunnelCall == funnelCalls'[Len(funnelCalls')]

\* the entry of funnelCache is younger than CACHE_TTL
FunnelCacheFresh ==
    funnelCache # NULL /\ now - funnelCache[1].timestamp < CACHE_TTL

\* C26: a call of getFunnelSummary made while the cache entry is younger
\* than CACHE_TTL (timestamp: the last successful fetch, no clearFunnelCache
\* since) returns the cached rows without calling the backend; a call made
\* at or after CACHE_TTL, or with no entry, calls the backend; a backend
\* error makes the call return an empty list and leaves the cache exactly
\* as it was.
C26_FunnelCache ==
    [][ /\ (FunnelCallMade /\ FunnelCacheFresh) =>
              /\ NewFunnelCall.state = "returned"
              /\ NewFunnelCall.value = Some(funnelCache[1].data)
              /\ funnelCache' = funnelCache
        /\ (FunnelCallMade /\ ~FunnelCacheFresh) =>
              /\ NewFunnelCall.state = "rpc"
              /\ funnelCache' = funnelCache
        /\ \A k \in 1 .. Len(funnelCalls) :
              ( /\ Len(funnelCalls') = Len(funnelCalls)
                /\ funnelCalls[k].state = "rpc"
                /\ funnelCalls'[k].state = "returned"
                /\ funnelCalls'[k].response[1].error # NULL ) =>
                  /\ funnelCalls'[k].value = Some(<<>>)
                  /\ funnelCache' = funnelCache ]_vars

\* C26 witness: the first call fetched rows at time 0 and cached them; the
\* second call returned them without awaiting the backend; the third call
\* awaited the backend, got an error and returned the empty list, with the
\* cache, now CACHE_TTL old, still holding the rows
C26_Witness ==
    /\ Len(funnelCalls) = 3
    /\ funnelCalls[1].state = "returned" /\ funnelCalls[1].response # NULL
    /\ funnelCalls[1].value # Some(<<>>)
    /\ funnelCalls[2].state = "returned" /\ funnelCalls[2].response = NULL
    /\ funnelCalls[2].value = funnelCalls[1].value
    /\ funnelCalls[3].state = "returned" /\ funnelCalls[3].response # NULL
    /\ funnelCalls[3].response[1].error # NULL
    /\ funnelCalls[3].value = Some(<<>>)
    /\ funnelCache = Some([data |-> funnelCalls[1].value[1], timestamp |-> 0])
    /\ now = CACHE_TTL

\* C27: a call of getCauseCodeData in which the query of the unknown flights
\* or the query of the audit log returned an error leaves dataCache
\* unchanged when it ends.
C27_FailedFetchNotCached ==
    [][ \A k \in 1 .. Len(causeCalls) :
          ( /\ Len(causeCalls') = Len(causeCalls)
            /\ causeCalls[k].state # "returned"
            /\ causeCalls'[k].state = "returned"
            /\ \/ causeCalls'[k].unknownError # NULL
               \/ causeCalls'[k].auditError # NULL ) =>
              dataCache' = dataCache ]_vars

\* C28: within one grid distinct rows have distinct time_formatted labels.
C28_LabelsDistinct ==
    \A r, q \in Rows :
        r # q => passengerGridData[r].time_formatted # passengerGridData[q].time_formatted

\* useMemo: chartData
ChartData == transformToNivoData(passengerGridData, selectedFlights)

\* C29: for n selected flights every row of the grid has exactly the n
\* columns flight_0 .. flight_{n-1} besides time, time_formatted and total,
\* also when two selected flights share a flight_number; the table has one
\* column per selected flight between time_formatted and total; and
\* transformToNivoData returns exactly n series in selection order, each
\* with one point per grid row in row order whose y is the flight's column
\* value.
C29_ColumnsByPosition ==
    Len(selectedFlights) > 0 =>
        /\ \A r \in Rows :
              /\ DOMAIN passengerGridData[r] = {"time", "time_formatted", "flight", "total"}
              /\ DOMAIN passengerGridData[r].flight = Columns
        /\ passengerColumnDefs(selectedFlights)
              = <<"time_formatted">>
                \o [k \in 1 .. Len(selectedFlights) |-> <<"flight", k - 1>>]
                \o <<"total">>
        /\ LET series == ChartData
           IN  /\ Len(series) = Len(selectedFlights)
               /\ \A i \in Columns :
                     /\ series[i + 1].id = Selected(i).flight_number
                     /\ Len(series[i + 1].data) = Len(passengerGridData)
                     /\ \A r \in Rows :
                           /\ series[i + 1].data[r].x = passengerGridData[r].time_formatted
                           /\ series[i + 1].data[r].y = passengerGridData[r].flight[i]

\* C29 witness: two selected flights share their flight_number and differ in
\* a row of the grid, and the two series differ in the point of that row
C29_Witness ==
    /\ Len(selectedFlights) = 2
    /\ Selected(0).flight_number = Selected(1).flight_number
    /\ \E r \in Rows :
          /\ passengerGridData[r].flight[0] # passengerGridData[r].flight[1]
          /\ ChartData[1].data[r].y = passengerGridData[r].flight[0]
          /\ ChartData[2].data[r].y = passengerGridData[r].flight[1]
          /\ ChartData[1].id = ChartData[2].id

=============================================================================
